---- MODULE Spec2Model ----
(***************************************************************************)
(* Model of api/roteiro.js: the exchange-rate resolver getFxBRLto, the     *)
(* flight search searchFlightsAviasales, the airport-code resolver         *)
(* resolveIataTerm and the request handler that calls them.                *)
(*                                                                         *)
(* Strings whose letter case the code inspects are sequences of one-letter *)
(* strings, so that toUpperCase / toLowerCase are computed, not assumed.   *)
(* JSON numbers are rationals [n, d]; values that are not finite numbers   *)
(* carry a tag.                                                            *)
(***************************************************************************)
EXTENDS Integers, Sequences, FiniteSets, TLC

VARIABLES
    \* ---- getFxBRLto ----
    fxPc,        \* "idle" | "entered" | "trying" | "returned" | "threw" (an exception left the function)
    fxCode,      \* the argument `code`
    fxNext,      \* index of the provider block about to run (1..3)
    fxCalls,     \* providers requested so far, in order (requests sent)
    fxResps,     \* the outcome of each request, in order
    fxRet,       \* the returned quote
    \* ---- handler (classification result, FX step) ----
    hPc,         \* position of the handler
    hCls,        \* currency_code field of the classifier's JSON
    hMetaCur,    \* meta.currency_code
    hFx,         \* the handler's fx object
    hConv,       \* which branch built convHeader
    \* ---- searchFlightsAviasales ----
    flPc,        \* "idle" | "entered" | "oneWayOut" | "oneWayBack" | "roundTrip" | "returned" | "threw"
    flToken,     \* TRAVELPAYOUTS_TOKEN is set
    flArgs,      \* origin, destination, depart, ret, limit
    flForce,     \* _forceFallback of the running invocation
    flDepth,     \* nested invocations of searchFlightsAviasales
    flDecomposed,\* times the one-way branch (line 538) was entered
    flQueries,   \* the provider queries sent, in order
    flResps,     \* what each query ended in, in order
    flOut,       \* `out` of the one-way branch
    flCombined,  \* the array `combined` after line 580
    flResult,    \* the returned object
    \* ---- resolveIataTerm ----
    iaPc,        \* "idle" | "entered" | "alias" | "autocomplete" | "returned" | "threw" | "stalled"
    iaTerm,      \* the argument `term`
    iaSteps,     \* the steps run so far, in order, each with what it found
    iaCalls,     \* the terms sent to the autocomplete service, in order
    iaResp,      \* what the autocomplete request ended in
    iaRet,       \* the returned code, or null
    \* ---- handler (the request as a whole) ----
    hIn,         \* the request: method, body fields, configured credentials
    hSent,       \* the responses sent (status and kind of body), in order
    hCalls,      \* the handler's own external calls and their outcomes, in order
    hMeta,       \* normalized_name and country_name of meta
    hGen,        \* the result of generateHtmlWithSearch
    hOrigin,     \* originIata
    hDest,       \* destIata
    hTermIdx,    \* position in tryTerms
    hFlights,    \* the variable `flights`
    hEmail,      \* payloadOut.email
    \* ---- handler (party size, budgets, money rows) ----
    bgPc,        \* "idle" | "read" | "reconciled" | "shown"
    bgIn,        \* body.pessoas, the two parsed budgets, the fx object
    bgOut,       \* pessoas, orcTotal, orcPerPerson, the money rows, convHeader
    \* ---- two invocations of the handler in one process ----
    twEnv,       \* process.env: SENDGRID_API_KEY
    twMod,       \* module-level state: the API key held by the sgMail client, and who set it
    twInv        \* per invocation: position, request, external answers, locals, responses

fxVars == <<fxPc, fxCode, fxNext, fxCalls, fxResps, fxRet>>
hVars  == <<hPc, hCls, hMetaCur, hFx, hConv>>
flVars == <<flPc, flToken, flArgs, flForce, flDepth, flDecomposed,
            flQueries, flResps, flOut, flCombined, flResult>>
iaVars == <<iaPc, iaTerm, iaSteps, iaCalls, iaResp, iaRet>>
rqVars == <<hIn, hSent, hCalls, hMeta, hGen, hOrigin, hDest, hTermIdx, hFlights, hEmail>>
bgVars == <<bgPc, bgIn, bgOut>>
twVars == <<twEnv, twMod, twInv>>
vars   == <<fxPc, fxCode, fxNext, fxCalls, fxResps, fxRet,
            hPc, hCls, hMetaCur, hFx, hConv,
            flPc, flToken, flArgs, flForce, flDepth, flDecomposed,
            flQueries, flResps, flOut, flCombined, flResult,
            iaPc, iaTerm, iaSteps, iaCalls, iaResp, iaRet,
            hIn, hSent, hCalls, hMeta, hGen, hOrigin, hDest, hTermIdx, hFlights, hEmail,
            bgPc, bgIn, bgOut, twEnv, twMod, twInv>>

(***************************************************************************)
(* Letters and case conversion                                             *)
(***************************************************************************)
LowerLetters == <<"b", "r", "l", "u", "s", "d", "e">>
UpperLetters == <<"B", "R", "L", "U", "S", "D", "E">>

\* String.prototype.toUpperCase on one letter
UpperChar(c) ==
    IF \E i \in DOMAIN LowerLetters : LowerLetters[i] = c
    THEN UpperLetters[CHOOSE i \in DOMAIN LowerLetters : LowerLetters[i] = c]
    ELSE c

\* String.prototype.toUpperCase
ToUpper(s) == [i \in DOMAIN s |-> UpperChar(s[i])]

BRL == <<"B", "R", "L">>
USD == <<"U", "S", "D">>

(***************************************************************************)
(* JSON values read as numbers                                             *)
(***************************************************************************)
Num(n, d)  == [t |-> "num", n |-> n, d |-> d]
NotNum(t)  == [t |-> t, n |-> 0, d |-> 1]
Zero       == Num(0, 1)
One        == Num(1, 1)

\* Number.isFinite(v): a number that is neither NaN nor +-Infinity
IsFiniteNumber(v) == v.t = "num"

\* 1 / rate for a positive finite rate
Reciprocal(v) == Num(v.d, v.n)

\* v || 0 for a number v
OrZero(v) == IF v.t = "num" /\ v.n # 0 THEN v ELSE Zero

\* what rates[target] of a provider's JSON can be
RateValues ==
    { NotNum("undefined"), NotNum("null"), NotNum("string"), NotNum("infinity"),
      Zero, Num(-1, 5), Num(9, 50), Num(5, 1) }

(***************************************************************************)
(* getFxBRLto (lines 410-459)                                              *)
(***************************************************************************)
Providers == <<"exchangerate.host", "frankfurter.app", "open.er-api.com">>

\* What one provider request can end in.
\*   reject   : fetch rejects (network error)
\*   abort    : the 15 s timer aborts the fetch
\*   bodyfail : reading the body rejects
\*   nonjson  : the body is not JSON, safeJson gives {_raw}
\*   json     : a JSON body; rate = rates[target], date = its date field
FxOutcomes ==
    { [k |-> k, rate |-> NotNum("undefined"), date |-> "absent"] :
          k \in {"reject", "abort", "bodyfail", "nonjson"} }
    \cup
    { [k |-> "json", rate |-> r, date |-> d] :
          r \in RateValues, d \in {"absent", "valid", "invalid"} }

\* faulty variant: the argument is compared as written
FxTarget_AsWritten(code) == code

\* const target = (code || '').toUpperCase()
FxTarget(code) == ToUpper(code)

\* if (!target || target === 'BRL')
FxShortCircuit(code) == FxTarget(code) = <<>> \/ FxTarget(code) = BRL

\* the await of fetchWithTimeout / safeJson throws inside the try block
FxRequestThrows(o) == o.k \in {"reject", "abort", "bodyfail"}

\* if (Number.isFinite(rate) && rate > 0)
FxRateOk(o) == ~FxRequestThrows(o) /\ IsFiniteNumber(o.rate) /\ o.rate.n > 0

\* fmtDate(new Date(j.date + 'T00:00:00Z')): Intl.DateTimeFormat.format throws a
\* RangeError on an Invalid Date; the expression sits inside the try block.
FxDateThrows(o) == o.date = "invalid"

\* the provider block returns its quote
FxAccepts(o) == FxRateOk(o) /\ ~FxDateThrows(o)

\* an exception is raised inside provider block i
FxBlockThrows(o) == FxRequestThrows(o) \/ (FxRateOk(o) /\ FxDateThrows(o))

\* faulty variant: the third block has no catch
FxCatches_ThirdUncaught(i) == i \in 1..2

\* lines 429, 444, 456: every provider block is wrapped in try { } catch (e) { log }
FxCatches(i) == i \in 1..3

FxQuote(o, i) ==
    [rate |-> o.rate, inverse |-> Reciprocal(o.rate),
     date |-> IF o.date = "absent" THEN "today" ELSE "provider",
     provider |-> Providers[i]]

FxNone        == [rate |-> One,  inverse |-> One,  date |-> "today", provider |-> "none"]
FxUnavailable == [rate |-> Zero, inverse |-> Zero, date |-> "today", provider |-> "unavailable"]
FxPending     == [rate |-> Zero, inverse |-> Zero, date |-> "today", provider |-> "pending"]

\* lines 411-414: entry and the base-currency short circuit
FxEnter ==
    /\ fxPc = "entered"
    /\ IF FxShortCircuit(fxCode)
       THEN /\ fxPc' = "returned"
            /\ fxRet' = FxNone
            /\ UNCHANGED fxNext
       ELSE /\ fxPc' = "trying"
            /\ fxNext' = 1
            /\ UNCHANGED fxRet
    /\ UNCHANGED <<fxCode, fxCalls, fxResps>>
    /\ UNCHANGED <<hVars, flVars, iaVars, rqVars, bgVars, twVars>>

\* lines 416-458: provider block i; after the third block the sentinel return
FxTry(i) ==
    /\ fxPc = "trying"
    /\ fxNext = i
    /\ \E o \in FxOutcomes :
        /\ fxCalls' = Append(fxCalls, Providers[i])
        /\ fxResps' = Append(fxResps, o)
        /\ IF FxBlockThrows(o) /\ ~FxCatches(i)
           THEN /\ fxPc' = "threw"
                /\ UNCHANGED <<fxNext, fxRet>>
           ELSE IF FxAccepts(o)
           THEN /\ fxPc' = "returned"
                /\ fxRet' = FxQuote(o, i)
                /\ UNCHANGED fxNext
           ELSE IF i < Len(Providers)
           THEN /\ fxNext' = i + 1
                /\ UNCHANGED <<fxPc, fxRet>>
           ELSE /\ fxPc' = "returned"
                /\ fxRet' = FxUnavailable
                /\ UNCHANGED fxNext
    /\ UNCHANGED fxCode
    /\ UNCHANGED <<hVars, flVars, iaVars, rqVars, bgVars, twVars>>

(***************************************************************************)
(* handler: meta.currency_code and the FX step (lines 727-778)             *)
(***************************************************************************)
\* currency_code: (m.currency_code || 'USD').toUpperCase()
MetaCurrency(c) == IF c = <<>> THEN USD ELSE ToUpper(c)

\* currency_code values the classifier may answer (<<>>: field missing or empty)
ClassifierCurrencies ==
    { <<>>, USD, <<"u", "s", "d">>, <<"E", "U", "R">> }
    \cup { <<b, r, l>> : b \in {"B", "b"}, r \in {"R", "r"}, l \in {"L", "l"} }

\* line 749: const fxFetch = await getFxBRLto(meta.currency_code, reqId)
HandlerCallFx ==
    /\ hPc = "classified"
    /\ fxPc = "idle"
    /\ hMetaCur' = MetaCurrency(hCls)
    /\ fxCode' = MetaCurrency(hCls)
    /\ fxPc' = "entered"
    /\ hPc' = "awaitFx"
    /\ UNCHANGED <<fxNext, fxCalls, fxResps, fxRet, hCls, hFx, hConv>>
    /\ UNCHANGED <<flVars, iaVars, rqVars, bgVars, twVars>>

\* getFxBRLto called on its own with any argument (a null code is '')
DirectCallFx ==
    /\ hPc = "classified"
    /\ fxPc = "idle"
    /\ fxCode' = hCls
    /\ fxPc' = "entered"
    /\ hPc' = "none"
    /\ UNCHANGED <<fxNext, fxCalls, fxResps, fxRet, hCls, hMetaCur, hFx, hConv>>
    /\ UNCHANGED <<flVars, iaVars, rqVars, bgVars, twVars>>

\* lines 750-757: the fx object
HandlerFxObject(q, cur) ==
    [quote |-> IF cur = <<>> THEN USD ELSE cur,
     brl_to_quote |-> OrZero(q.rate),
     quote_to_brl |-> OrZero(q.inverse),
     provider |-> q.provider]

\* lines 775-778: fx.quote !== 'BRL' && fx.brl_to_quote
ConvHeaderKind(fx) ==
    IF fx.quote # BRL /\ fx.brl_to_quote # Zero THEN "conversion" ELSE "none"

\* lines 750-778: the handler resumes with the quote and goes on to the prompt;
\* an exception out of getFxBRLto would land in the outer catch (lines 1170-1173)
HandlerFxReturn ==
    /\ hPc = "awaitFx"
    /\ fxPc \in {"returned", "threw"}
    /\ IF fxPc = "threw"
       THEN /\ hPc' = "caught500"
            /\ UNCHANGED <<hFx, hConv>>
       ELSE /\ hFx' = HandlerFxObject(fxRet, hMetaCur)
            /\ hConv' = ConvHeaderKind(HandlerFxObject(fxRet, hMetaCur))
            /\ hPc' = "generate"
    /\ UNCHANGED <<hCls, hMetaCur>>
    /\ UNCHANGED <<fxVars, flVars, iaVars, rqVars, bgVars, twVars>>

NoFx == [quote |-> <<>>, brl_to_quote |-> Zero, quote_to_brl |-> Zero, provider |-> "pending"]

FxIdle ==
    /\ fxPc = "idle"
    /\ fxCode = <<>>
    /\ fxNext = 0
    /\ fxCalls = <<>>
    /\ fxResps = <<>>
    /\ fxRet = FxPending

HandlerIdle ==
    /\ hMetaCur = <<>>
    /\ hFx = NoFx
    /\ hConv = "pending"

(***************************************************************************)
(* searchFlightsAviasales (lines 482-608)                                  *)
(***************************************************************************)
\* limit = 6: the default of the parameter, and what the handler passes
DefaultLimit == 6
\* daysBetween(depart, ret) > 30
MaxSpanDays == 30
\* items_outbound.slice(0, 3), items_return.slice(0, 3)
TopN == 3
\* the longest offer list a provider answer holds
MaxOffers == 4

Min(a, b) == IF a < b THEN a ELSE b

\* Array.prototype.slice(0, n) for n >= 0
Slice(s, n) == SubSeq(s, 1, Min(n, Len(s)))

\* ---- dates: 'YYYY-MM-DD' strings, '' when absent --------------------------
Date(y, m, d) == [k |-> "date", y |-> y, m |-> m, d |-> d]
AbsentDate    == [k |-> "absent", y |-> 0, m |-> 0, d |-> 0]
\* a non-empty string that new Date(s + 'T00:00:00Z') cannot parse
InvalidDate   == [k |-> "invalid", y |-> 0, m |-> 0, d |-> 0]

\* days of a common year before each month (2025 and 2026 are common years)
DaysBeforeMonth == <<0, 31, 59, 90, 120, 151, 181, 212, 243, 273, 304, 334>>

\* new Date(s + 'T00:00:00Z') / 86400000, counted from 2025-01-01
EpochDay(dt) == 365 * (dt.y - 2025) + DaysBeforeMonth[dt.m] + (dt.d - 1)

\* daysBetween: Math.round((d2 - d1) / 86400000); NaN when a date is invalid
daysBetween(a, b) ==
    IF a.k = "date" /\ b.k = "date"
    THEN Num(EpochDay(b) - EpochDay(a), 1)
    ELSE NotNum("nan")

\* truthiness of a date string
Present(dt) == dt.k # "absent"

\* faulty variant: >= 30 instead of > 30
tooLong_AtLeast30(depart, ret) ==
    IF Present(ret) /\ Present(depart)
    THEN LET n == daysBetween(depart, ret) IN n.t = "num" /\ n.n >= MaxSpanDays
    ELSE FALSE

\* line 537: const tooLong = (ret && depart) ? daysBetween(depart, ret) > 30 : false
tooLong(depart, ret) ==
    IF Present(ret) /\ Present(depart)
    THEN LET n == daysBetween(depart, ret) IN n.t = "num" /\ n.n > MaxSpanDays
    ELSE FALSE

\* line 538: if (_forceFallback || !ret || !depart || tooLong)
UseOneWay(force, depart, ret) ==
    force \/ ~Present(ret) \/ ~Present(depart) \/ tooLong(depart, ret)

\* ---- message texts: sequences of words ------------------------------------
MixedWords == <<"Exceeds", "Supported", "Maximum", "Of", "Unauthorized">>
LowerWords == <<"exceeds", "supported", "maximum", "of", "unauthorized">>

\* toLowerCase on one word
LowerWord(w) ==
    IF \E i \in DOMAIN MixedWords : MixedWords[i] = w
    THEN LowerWords[CHOOSE i \in DOMAIN MixedWords : MixedWords[i] = w]
    ELSE w

\* String.prototype.toLowerCase
ToLowerText(t) == [i \in DOMAIN t |-> LowerWord(t[i])]

\* String.prototype.includes
Includes(t, phrase) ==
    \E off \in 0..(Len(t) - Len(phrase)) :
        \A i \in DOMAIN phrase : t[off + i] = phrase[i]

\* 'exceeds supported maximum of 30'
SpanPhrase == <<"exceeds", "supported", "maximum", "of", "30">>
\* what the provider sends when the span is too long, and another complaint
SpanText   == <<"range", "Exceeds", "supported", "maximum", "of", "30", "days">>
OtherText  == <<"Unauthorized">>
\* 'Erro na API Travelpayouts'
DefaultErrorText == <<"Erro", "na", "API", "Travelpayouts">>

\* ---- provider offers -------------------------------------------------------
Undefined == NotNum("undefined")
Null      == NotNum("null")

\* the items a provider answer is made of (airline, price, transfers, stops)
RawOffers ==
    { [airline |-> "G3", price |-> Num(300, 1), transfers |-> Num(0, 1), stops |-> Undefined],
      [airline |-> "LA", price |-> Num(100, 1), transfers |-> Num(1, 1), stops |-> Undefined],
      [airline |-> "AD", price |-> Num(200, 1), transfers |-> Undefined, stops |-> Num(2, 1)],
      [airline |-> "AZ", price |-> Undefined,   transfers |-> Undefined, stops |-> Undefined] }

\* data.data of an answer: the offers in any order, none twice
OfferLists ==
    UNION { { l \in [1..n -> RawOffers] : \A i, j \in 1..n : i # j => l[i] # l[j] } :
            n \in 0..MaxOffers }

\* what callApi can end in: fetch or body reading rejects, or {ok, status, data}
Thrown(k) ==
    [k |-> k, ok |-> FALSE, status |-> 0, raw |-> <<>>, error |-> <<>>,
     message |-> <<>>, isArray |-> FALSE, list |-> <<>>]
Answer(okk, st, raw, err, msg, isArr, l) ==
    [k |-> "http", ok |-> okk, status |-> st, raw |-> raw, error |-> err,
     message |-> msg, isArray |-> isArr, list |-> l]
NoAnswer == Thrown("none")

ThrownOutcomes == { Thrown(k) : k \in {"reject", "abort", "bodyfail"} }

\* 2xx answers: a list of offers, or a body without a data array
OkOutcomes ==
    { Answer(TRUE, 200, <<>>, <<>>, <<>>, TRUE, l) : l \in OfferLists }
    \cup { Answer(TRUE, 200, <<>>, <<>>, <<>>, FALSE, <<>>) }

\* non-2xx answers: a text body (_raw), or JSON with error and/or message
ErrorOutcomes ==
    { Answer(FALSE, 400, r, <<>>, <<>>, FALSE, <<>>) : r \in {<<>>, SpanText, OtherText} }
    \cup { Answer(FALSE, 400, <<>>, e, m, FALSE, <<>>) :
              e \in {<<>>, SpanText, OtherText}, m \in {<<>>, SpanText, OtherText} }
    \cup { Answer(FALSE, 500, OtherText, <<>>, <<>>, FALSE, <<>>) }

RoundTripOutcomes == ThrownOutcomes \cup OkOutcomes \cup ErrorOutcomes

\* a failed one-way leg is only logged: one answer per kind of payload is enough
OneWayOutcomes ==
    ThrownOutcomes \cup OkOutcomes
    \cup { Answer(FALSE, 400, <<>>, SpanText, <<>>, FALSE, <<>>),
           Answer(FALSE, 500, OtherText, <<>>, <<>>, FALSE, <<>>) }

\* ---- callApi queries -------------------------------------------------------
Query(o, d, dep, retAt) == [o |-> o, d |-> d, dep |-> dep, retAt |-> retAt]

\* ---- mapItems (lines 519-534) ---------------------------------------------
\* price_number: Number.isFinite(+x.price) ? +x.price : null
PriceNumber(x) == IF IsFiniteNumber(x.price) THEN x.price ELSE Null

\* stops: (typeof x.transfers === 'number') ? x.transfers : (x.stops ?? null)
Stops(x) ==
    IF x.transfers.t = "num" THEN x.transfers
    ELSE IF x.stops.t \in {"undefined", "null"} THEN Null ELSE x.stops

\* one mapped offer (the display-only fields duration, price and deep_link are left out)
MapItem(x, q) ==
    [from |-> q.o, to |-> q.d, depart |-> q.dep,
     ret |-> IF Present(q.retAt) THEN q.retAt ELSE AbsentDate,
     airline |-> x.airline, stops |-> Stops(x), price_number |-> PriceNumber(x)]

\* const arr = Array.isArray(items) ? items : []; arr.slice(0, limit).map(...)
mapItems(resp, q, limit) ==
    LET arr == IF resp.isArray THEN resp.list ELSE <<>>
        cut == Slice(arr, limit)
    IN [i \in DOMAIN cut |-> MapItem(cut[i], q)]

\* ---- the one-way branch (lines 558-588) -----------------------------------
\* v ?? 0
NullishZero(v) == IF v.t \in {"undefined", "null"} THEN Zero ELSE v

\* u + v for two integers
Plus(u, v) == Num(u.n + v.n, 1)

\* faulty variant: the total is the outbound price alone
Combo_OutboundPriceOnly(a, b) ==
    [from |-> a.from, to |-> a.to, depart |-> a.depart, ret |-> b.depart,
     airline |-> a.airline,
     stops |-> Plus(NullishZero(a.stops), NullishZero(b.stops)),
     price_number |-> OrZero(a.price_number),
     outbound |-> a, back |-> b]

\* lines 565-577: one pairing of an outbound offer a with a return offer b
Combo(a, b) ==
    [from |-> a.from, to |-> a.to, depart |-> a.depart, ret |-> b.depart,
     airline |-> a.airline,
     stops |-> Plus(NullishZero(a.stops), NullishZero(b.stops)),
     price_number |-> Plus(OrZero(a.price_number), OrZero(b.price_number)),
     outbound |-> a, back |-> b]

\* faulty variant: every offer of a leg is paired, not the first three
Combine_AllOffers(outb, retn) ==
    [k \in 1..(Len(outb) * Len(retn)) |->
        Combo(outb[((k - 1) \div Len(retn)) + 1], retn[((k - 1) % Len(retn)) + 1])]

\* lines 562-579: for a of items_outbound.slice(0,3) for b of items_return.slice(0,3)
Combine(outb, retn) ==
    LET as == Slice(outb, TopN)
        bs == Slice(retn, TopN)
    IN [k \in 1..(Len(as) * Len(bs)) |->
            Combo(as[((k - 1) \div Len(bs)) + 1], bs[((k - 1) % Len(bs)) + 1])]

\* 1e12 in the comparator of line 580; here a 32-bit value above every price
NullSortKey == 1000000000

\* the comparator's key: x.price_number ?? 1e12
SortKey(x) ==
    IF x.price_number.t \in {"undefined", "null"} THEN NullSortKey ELSE x.price_number.n

\* Array.prototype.sort with the comparator of line 580 (a stable sort)
RECURSIVE InsertByPrice(_, _)
InsertByPrice(x, s) ==
    IF s = <<>> THEN <<x>>
    ELSE IF SortKey(x) < SortKey(Head(s)) THEN <<x>> \o s
    ELSE <<Head(s)>> \o InsertByPrice(x, Tail(s))

RECURSIVE SortFirst(_, _)
SortFirst(s, n) == IF n = 0 THEN <<>> ELSE InsertByPrice(s[n], SortFirst(s, n - 1))

\* faulty variant: line 580 left out
SortByPrice_Unsorted(s) == s

SortByPrice(s) == SortFirst(s, Len(s))

\* ---- result objects --------------------------------------------------------
Result(kind, err, st, raw, items, comb, outb, retn) ==
    [kind |-> kind, error |-> err, status |-> st, raw |-> raw, items |-> items,
     items_combined |-> comb, items_outbound |-> outb, items_return |-> retn]

NoResult == Result("none", <<>>, 0, NoAnswer, <<>>, <<>>, <<>>, <<>>)

\* faulty variant: an empty item list instead of the error object
NotConfigured_NoError ==
    Result("items", <<>>, 0, NoAnswer, <<>>, <<>>, <<>>, <<>>)

\* line 494
NotConfigured ==
    Result("error", <<"TRAVELPAYOUTS_TOKEN", "não", "configurado">>, 0, NoAnswer,
           <<>>, <<>>, <<>>, <<>>)

\* line 558
ItemsOutbound(out, args) ==
    IF out.ok
    THEN mapItems(out, Query(args.origin, args.destination, args.depart, AbsentDate), args.limit)
    ELSE <<>>

\* line 559: (back && back.ok) ? mapItems(...) : []
ItemsReturn(back, args) ==
    IF back.k = "http" /\ back.ok
    THEN mapItems(back, Query(args.destination, args.origin, args.ret, AbsentDate), args.limit)
    ELSE <<>>

\* lines 562-580: `combined`, built and sorted
OneWayCombined(out, back, args) ==
    SortByPrice(Combine(ItemsOutbound(out, args), ItemsReturn(back, args)))

\* lines 582-588: the object the one-way branch returns
OneWayResult(out, back, args) ==
    Result("oneway", <<>>, 0, NoAnswer, <<>>,
           Slice(OneWayCombined(out, back, args), args.limit),
           ItemsOutbound(out, args), ItemsReturn(back, args))

\* line 595-596: msg = (rt.data?._raw || rt.data?.error || '').toString().toLowerCase()
\*               msg.includes('exceeds supported maximum of 30')
SpanRejected(rt) ==
    LET msg == ToLowerText(IF rt.raw # <<>> THEN rt.raw ELSE rt.error)
    IN Includes(msg, SpanPhrase)

\* faulty variant: the nested call does not force the one-way branch
RetryForce_NotForced == FALSE

\* line 598: the nested call passes _forceFallback: true
RetryForce == TRUE

\* faulty variant: the status is not copied into the error object
ErrorResult_NoStatus(rt) ==
    Result("error",
           IF rt.message # <<>> THEN rt.message
           ELSE IF rt.raw # <<>> THEN rt.raw ELSE DefaultErrorText,
           0, rt, <<>>, <<>>, <<>>, <<>>)

\* line 601: { error: rt.data?.message || rt.data?._raw || 'Erro na API...', _raw, status }
ErrorResult(rt) ==
    Result("error",
           IF rt.message # <<>> THEN rt.message
           ELSE IF rt.raw # <<>> THEN rt.raw ELSE DefaultErrorText,
           rt.status, rt, <<>>, <<>>, <<>>, <<>>)

\* lines 604-607
RoundTripResult(rt, args) ==
    Result("roundtrip", <<>>, 0, rt,
           mapItems(rt, Query(args.origin, args.destination, args.depart, args.ret), args.limit),
           <<>>, <<>>, <<>>)

\* ---- the steps -------------------------------------------------------------
\* lines 491-495 and 537-539: credential check, choice of the branch
FlEnter ==
    /\ flPc = "entered"
    /\ IF ~flToken
       THEN /\ flPc' = "returned"
            /\ flResult' = NotConfigured
            /\ UNCHANGED flDecomposed
       ELSE IF UseOneWay(flForce, flArgs.depart, flArgs.ret)
       THEN /\ flPc' = "oneWayOut"
            /\ flDecomposed' = flDecomposed + 1
            /\ UNCHANGED flResult
       ELSE /\ flPc' = "roundTrip"
            /\ UNCHANGED <<flResult, flDecomposed>>
    /\ UNCHANGED <<flToken, flArgs, flForce, flDepth, flQueries, flResps, flOut, flCombined>>
    /\ UNCHANGED <<fxVars, hVars, iaVars, rqVars, bgVars, twVars>>

\* lines 541-546 (and 558-588 when there is no return date)
FlOneWayOut ==
    /\ flPc = "oneWayOut"
    /\ \E r \in OneWayOutcomes :
        /\ flQueries' = Append(flQueries,
                               Query(flArgs.origin, flArgs.destination, flArgs.depart, AbsentDate))
        /\ flResps' = Append(flResps, r)
        /\ IF r.k # "http"
           THEN /\ flPc' = "threw"
                /\ UNCHANGED <<flOut, flCombined, flResult>>
           ELSE IF Present(flArgs.ret)
           THEN /\ flPc' = "oneWayBack"
                /\ flOut' = r
                /\ UNCHANGED <<flCombined, flResult>>
           ELSE /\ flPc' = "returned"
                /\ flOut' = r
                /\ flCombined' = OneWayCombined(r, NoAnswer, flArgs)
                /\ flResult' = OneWayResult(r, NoAnswer, flArgs)
    /\ UNCHANGED <<flToken, flArgs, flForce, flDepth, flDecomposed>>
    /\ UNCHANGED <<fxVars, hVars, iaVars, rqVars, bgVars, twVars>>

\* lines 549-588
FlOneWayBack ==
    /\ flPc = "oneWayBack"
    /\ \E r \in OneWayOutcomes :
        /\ flQueries' = Append(flQueries,
                               Query(flArgs.destination, flArgs.origin, flArgs.ret, AbsentDate))
        /\ flResps' = Append(flResps, r)
        /\ IF r.k # "http"
           THEN /\ flPc' = "threw"
                /\ UNCHANGED <<flCombined, flResult>>
           ELSE /\ flPc' = "returned"
                /\ flCombined' = OneWayCombined(flOut, r, flArgs)
                /\ flResult' = OneWayResult(flOut, r, flArgs)
    /\ UNCHANGED <<flToken, flArgs, flForce, flDepth, flDecomposed, flOut>>
    /\ UNCHANGED <<fxVars, hVars, iaVars, rqVars, bgVars, twVars>>

\* lines 592-607
FlRoundTrip ==
    /\ flPc = "roundTrip"
    /\ \E r \in RoundTripOutcomes :
        /\ flQueries' = Append(flQueries,
                               Query(flArgs.origin, flArgs.destination, flArgs.depart, flArgs.ret))
        /\ flResps' = Append(flResps, r)
        /\ IF r.k # "http"
           THEN /\ flPc' = "threw"
                /\ UNCHANGED <<flResult, flForce, flDepth>>
           ELSE IF ~r.ok /\ SpanRejected(r)
           THEN /\ flPc' = "entered"
                /\ flForce' = RetryForce
                /\ flDepth' = flDepth + 1
                /\ UNCHANGED flResult
           ELSE IF ~r.ok
           THEN /\ flPc' = "returned"
                /\ flResult' = ErrorResult(r)
                /\ UNCHANGED <<flForce, flDepth>>
           ELSE /\ flPc' = "returned"
                /\ flResult' = RoundTripResult(r, flArgs)
                /\ UNCHANGED <<flForce, flDepth>>
    /\ UNCHANGED <<flToken, flArgs, flDecomposed, flOut, flCombined>>
    /\ UNCHANGED <<fxVars, hVars, iaVars, rqVars, bgVars, twVars>>

(***************************************************************************)
(* Texts: strings, taken apart into their characters where the code looks  *)
(* at letters (toUpperCase, toLowerCase, regular expressions, split)       *)
(***************************************************************************)
Chars(s) == [i \in 1..Len(s) |-> SubSeq(s, i, i)]

RECURSIVE Text(_)
Text(cs) == IF cs = <<>> THEN "" ELSE Head(cs) \o Text(Tail(cs))

AsciiLower  == Chars("abcdefghijklmnopqrstuvwxyz")
AsciiUpper  == Chars("ABCDEFGHIJKLMNOPQRSTUVWXYZ")
\* the accented letters of the place names, their capitals and their base letters
AccentLower == Chars("áãçéíóôúü")
AccentUpper == Chars("ÁÃÇÉÍÓÔÚÜ")
AccentBase  == Chars("aaceioouu")
Digits      == Chars("0123456789")

InSeq(c, s)  == \E i \in DOMAIN s : s[i] = c
IndexOf(c, s) == CHOOSE i \in DOMAIN s : s[i] = c

\* String.prototype.toUpperCase, one character
UpperCaseChar(c) ==
    IF InSeq(c, AsciiLower) THEN AsciiUpper[IndexOf(c, AsciiLower)]
    ELSE IF InSeq(c, AccentLower) THEN AccentUpper[IndexOf(c, AccentLower)]
    ELSE c

\* String.prototype.toLowerCase, one character
LowerCaseChar(c) ==
    IF InSeq(c, AsciiUpper) THEN AsciiLower[IndexOf(c, AsciiUpper)]
    ELSE IF InSeq(c, AccentUpper) THEN AccentLower[IndexOf(c, AccentUpper)]
    ELSE c

\* normalize('NFD').replace(/[\u0300-\u036f]/g, ''), one character
StripAccent(c) ==
    IF InSeq(c, AccentLower) THEN AccentBase[IndexOf(c, AccentLower)]
    ELSE IF InSeq(c, AccentUpper) THEN UpperCaseChar(AccentBase[IndexOf(c, AccentUpper)])
    ELSE c

\* \w of a regular expression without the u flag: [A-Za-z0-9_]
IsWordChar(c) == InSeq(c, AsciiLower) \/ InSeq(c, AsciiUpper) \/ InSeq(c, Digits) \/ c = "_"

\* \p{L} or \p{N}
IsLetterOrDigit(c) ==
    \/ InSeq(c, AsciiLower) \/ InSeq(c, AsciiUpper)
    \/ InSeq(c, AccentLower) \/ InSeq(c, AccentUpper)
    \/ InSeq(c, Digits)

UpperCase(s) == LET cs == Chars(s) IN Text([i \in DOMAIN cs |-> UpperCaseChar(cs[i])])
LowerCase(s) == LET cs == Chars(s) IN Text([i \in DOMAIN cs |-> LowerCaseChar(cs[i])])

\* String.prototype.split(sep) with a one-character separator
RECURSIVE SplitOn(_, _)
SplitOn(cs, sep) ==
    IF ~InSeq(sep, cs) THEN <<cs>>
    ELSE LET i == CHOOSE k \in DOMAIN cs : cs[k] = sep /\ \A j \in 1..(k - 1) : cs[j] # sep
         IN <<SubSeq(cs, 1, i - 1)>> \o SplitOn(SubSeq(cs, i + 1, Len(cs)), sep)

\* Array.prototype.join(sep)
RECURSIVE JoinWith(_, _)
JoinWith(parts, sep) ==
    IF parts = <<>> THEN <<>>
    ELSE IF Len(parts) = 1 THEN parts[1]
    ELSE parts[1] \o <<sep>> \o JoinWith(Tail(parts), sep)

\* replace(/\s+/g, ' ')
RECURSIVE CollapseSpaces(_)
CollapseSpaces(cs) ==
    IF Len(cs) < 2 THEN cs
    ELSE IF cs[1] = " " /\ cs[2] = " " THEN CollapseSpaces(Tail(cs))
    ELSE <<cs[1]>> \o CollapseSpaces(Tail(cs))

\* String.prototype.trim
RECURSIVE Trim(_)
Trim(cs) ==
    IF cs = <<>> THEN cs
    ELSE IF cs[1] = " " THEN Trim(Tail(cs))
    ELSE IF cs[Len(cs)] = " " THEN Trim(SubSeq(cs, 1, Len(cs) - 1))
    ELSE cs

(***************************************************************************)
(* normalizeKey (lines 119-126)                                            *)
(***************************************************************************)
\* toLowerCase, accents removed, [^\p{L}\p{N}\s] -> ' ', one character
NormalizeChar(c) ==
    LET b == StripAccent(LowerCaseChar(c))
    IN IF IsLetterOrDigit(b) \/ b = " " THEN b ELSE " "

\* faulty variant: runs of spaces are kept
normalizeKey_NoCollapse(s) ==
    LET cs == Chars(s)
    IN Text(Trim([i \in DOMAIN cs |-> NormalizeChar(cs[i])]))

normalizeKey(s) ==
    LET cs == Chars(s)
    IN Text(Trim(CollapseSpaces([i \in DOMAIN cs |-> NormalizeChar(cs[i])])))

(***************************************************************************)
(* The static tables                                                       *)
(***************************************************************************)
\* AIRPORT_TO_CITY (lines 129-230): airport code, city code
AirportToCityPairs ==
    { <<"GRU", "SAO">>, <<"CGH", "SAO">>, <<"VCP", "SAO">>, <<"GIG", "RIO">>, <<"SDU", "RIO">>,
      <<"CNF", "BHZ">>, <<"PLU", "BHZ">>, <<"BSB", "BSB">>, <<"SSA", "SSA">>, <<"REC", "REC">>,
      <<"FOR", "FOR">>, <<"NAT", "NAT">>, <<"JPA", "JPA">>, <<"MCZ", "MCZ">>, <<"AJU", "AJU">>,
      <<"BEL", "BEL">>, <<"MAO", "MAO">>, <<"MCP", "MCP">>, <<"BVB", "BVB">>, <<"PMW", "PMW">>,
      <<"CGB", "CGB">>, <<"CGR", "CGR">>, <<"GYN", "GYN">>, <<"POA", "POA">>, <<"CWB", "CWB">>,
      <<"FLN", "FLN">>, <<"NVT", "NVT">>, <<"IGU", "IGU">>, <<"IOS", "IOS">>, <<"BPS", "BPS">>,
      <<"PHB", "PHB">>, <<"STM", "STM">>, <<"FEN", "FEN">>, <<"SLZ", "SLZ">>, <<"THE", "THE">>,
      <<"VIX", "VIX">>, <<"CXJ", "CXJ">>, <<"JFK", "NYC">>, <<"LGA", "NYC">>, <<"EWR", "NYC">>,
      <<"MCO", "ORL">>, <<"SFB", "ORL">>, <<"ORL", "ORL">>, <<"FLL", "MIA">>, <<"MIA", "MIA">>,
      <<"PBI", "MIA">>, <<"IAD", "WAS">>, <<"DCA", "WAS">>, <<"BWI", "WAS">>, <<"ORD", "CHI">>,
      <<"MDW", "CHI">>, <<"LAX", "LAX">>, <<"BUR", "LAX">>, <<"LGB", "LAX">>, <<"SNA", "LAX">>,
      <<"ONT", "LAX">>, <<"SFO", "SFO">>, <<"OAK", "SFO">>, <<"SJC", "SFO">>, <<"SEA", "SEA">>,
      <<"PDX", "PDX">>, <<"SAN", "SAN">>, <<"LAS", "LAS">>, <<"ATL", "ATL">>, <<"DFW", "DFW">>,
      <<"DAL", "DFW">>, <<"IAH", "HOU">>, <<"HOU", "HOU">>, <<"BOS", "BOS">>, <<"HNL", "HNL">>,
      <<"YYZ", "YTO">>, <<"YTZ", "YTO">>, <<"YHM", "YTO">>, <<"YUL", "YMQ">>, <<"YHU", "YMQ">>,
      <<"YVR", "YVR">>, <<"YQB", "YQB">>, <<"YYC", "YYC">>, <<"YEG", "YEG">>, <<"MEX", "MEX">>,
      <<"NLU", "MEX">>, <<"TLC", "MEX">>, <<"CUN", "CUN">>, <<"SJD", "SJD">>, <<"PVR", "PVR">>,
      <<"GDL", "GDL">>, <<"PUJ", "PUJ">>, <<"SDQ", "SDQ">>, <<"POP", "POP">>, <<"STI", "STI">>,
      <<"HAV", "HAV">>, <<"LHR", "LON">>, <<"LGW", "LON">>, <<"LCY", "LON">>, <<"LTN", "LON">>,
      <<"STN", "LON">>, <<"SEN", "LON">>, <<"CDG", "PAR">>, <<"ORY", "PAR">>, <<"BVA", "PAR">>,
      <<"FCO", "ROM">>, <<"CIA", "ROM">>, <<"MXP", "MIL">>, <<"LIN", "MIL">>, <<"BGY", "MIL">>,
      <<"MAD", "MAD">>, <<"BCN", "BCN">>, <<"VLC", "VLC">>, <<"SVQ", "SVQ">>, <<"AGP", "AGP">>,
      <<"PMI", "PMI">>, <<"IBZ", "IBZ">>, <<"TFS", "TCI">>, <<"TFN", "TCI">>, <<"LPA", "LPA">>,
      <<"LIS", "LIS">>, <<"OPO", "OPO">>, <<"FAO", "FAO">>, <<"FNC", "FNC">>, <<"PDL", "PDL">>,
      <<"TER", "TER">>, <<"AMS", "AMS">>, <<"BRU", "BRU">>, <<"CRL", "BRU">>, <<"FRA", "FRA">>,
      <<"MUC", "MUC">>, <<"BER", "BER">>, <<"TXL", "BER">>, <<"SXF", "BER">>, <<"HAM", "HAM">>,
      <<"DUS", "DUS">>, <<"CGN", "CGN">>, <<"CPH", "CPH">>, <<"ARN", "STO">>, <<"BMA", "STO">>,
      <<"NYO", "STO">>, <<"VST", "STO">>, <<"OSL", "OSL">>, <<"HEL", "HEL">>, <<"PRG", "PRG">>,
      <<"BUD", "BUD">>, <<"WAW", "WAW">>, <<"KRK", "KRK">>, <<"VIE", "VIE">>, <<"ZRH", "ZRH">>,
      <<"GVA", "GVA">>, <<"BSL", "BSL">>, <<"ATH", "ATH">>, <<"JTR", "JTR">>, <<"JMK", "JMK">>,
      <<"DUB", "DUB">>, <<"SNN", "SNN">>, <<"ORK", "ORK">>, <<"CMN", "CMN">>, <<"RAK", "RAK">>,
      <<"AGA", "AGA">>, <<"CAI", "CAI">>, <<"HRG", "HRG">>, <<"SSH", "SSH">>, <<"JNB", "JNB">>,
      <<"CPT", "CPT">>, <<"NBO", "NBO">>, <<"IST", "IST">>, <<"SAW", "IST">>, <<"DXB", "DXB">>,
      <<"DWC", "DXB">>, <<"AUH", "AUH">>, <<"DOH", "DOH">>, <<"TLV", "TLV">>, <<"HND", "TYO">>,
      <<"NRT", "TYO">>, <<"KIX", "OSA">>, <<"ITM", "OSA">>, <<"UKB", "OSA">>, <<"ICN", "SEL">>,
      <<"GMP", "SEL">>, <<"PEK", "BJS">>, <<"PKX", "BJS">>, <<"PVG", "SHA">>, <<"SHA", "SHA">>,
      <<"HKG", "HKG">>, <<"MFM", "MFM">>, <<"SZX", "SZX">>, <<"BKK", "BKK">>, <<"DMK", "BKK">>,
      <<"HKT", "HKT">>, <<"CNX", "CNX">>, <<"HAN", "HAN">>, <<"SGN", "SGN">>, <<"KUL", "KUL">>,
      <<"SIN", "SIN">>, <<"CGK", "JKT">>, <<"HLP", "JKT">>, <<"DPS", "DPS">>, <<"MNL", "MNL">>,
      <<"CEB", "CEB">>, <<"DEL", "DEL">>, <<"BOM", "BOM">>, <<"BLR", "BLR">>, <<"MAA", "MAA">>,
      <<"HYD", "HYD">>, <<"GOI", "GOI">>, <<"SYD", "SYD">>, <<"MEL", "MEL">>, <<"BNE", "BNE">>,
      <<"PER", "PER">>, <<"ADL", "ADL">>, <<"AKL", "AKL">>, <<"WLG", "WLG">>, <<"CHC", "CHC">>,
      <<"ZQN", "ZQN">> }

\* IATA_HINTS (lines 233-335): place name, code
IataHintPairs ==
    { <<"sao paulo", "SAO">>, <<"sampa", "SAO">>, <<"sp", "SAO">>, <<"rio de janeiro", "RIO">>,
      <<"rio", "RIO">>, <<"brasilia", "BSB">>, <<"belo horizonte", "BHZ">>,
      <<"salvador", "SSA">>, <<"recife", "REC">>, <<"fortaleza", "FOR">>, <<"maceio", "MCZ">>,
      <<"natal", "NAT">>, <<"joao pessoa", "JPA">>, <<"aracaju", "AJU">>, <<"vitoria", "VIX">>,
      <<"belem", "BEL">>, <<"manaus", "MAO">>, <<"boa vista", "BVB">>, <<"macapa", "MCP">>,
      <<"palmas", "PMW">>, <<"cuiaba", "CGB">>, <<"campo grande", "CGR">>,
      <<"goiania", "GYN">>, <<"porto alegre", "POA">>, <<"curitiba", "CWB">>,
      <<"florianopolis", "FLN">>, <<"campinas", "VCP">>, <<"viracopos", "VCP">>,
      <<"caxias do sul", "CXJ">>, <<"foz do iguacu", "IGU">>, <<"foz do iguaçu", "IGU">>,
      <<"maragogi", "MCZ">>, <<"maragoji", "MCZ">>, <<"maragogi al", "MCZ">>,
      <<"maragogi brasil", "MCZ">>, <<"porto de galinhas", "REC">>,
      <<"morro de sao paulo", "SSA">>, <<"morro de são paulo", "SSA">>, <<"boipeba", "SSA">>,
      <<"chapada diamantina", "SSA">>, <<"lencois bahia", "SSA">>, <<"lençóis bahia", "SSA">>,
      <<"barreirinhas", "SLZ">>, <<"lencois maranhenses", "SLZ">>,
      <<"lençóis maranhenses", "SLZ">>, <<"jalapao", "PMW">>, <<"gramado", "POA">>,
      <<"canela", "POA">>, <<"serra gaucha", "POA">>, <<"bento goncalves", "POA">>,
      <<"bento gonçalves", "POA">>, <<"arraial do cabo", "RIO">>, <<"buzios", "RIO">>,
      <<"armacao dos buzios", "RIO">>, <<"armação dos búzios", "RIO">>,
      <<"angra dos reis", "RIO">>, <<"ilha grande", "RIO">>, <<"paraty", "RIO">>,
      <<"balneario camboriu", "NVT">>, <<"balneário camboriú", "NVT">>, <<"bombinhas", "NVT">>,
      <<"penha", "NVT">>, <<"beto carreiro", "NVT">>, <<"beto carrero", "NVT">>,
      <<"beto carreiro world", "NVT">>, <<"garopaba", "FLN">>, <<"praia do rosa", "FLN">>,
      <<"imbituba", "FLN">>, <<"ilha do mel", "CWB">>, <<"ilhabela", "SAO">>,
      <<"ubatuba", "SAO">>, <<"maresias", "SAO">>, <<"itacare", "IOS">>, <<"itacaré", "IOS">>,
      <<"marau", "IOS">>, <<"peninsula de marau", "IOS">>, <<"península de maraú", "IOS">>,
      <<"barra grande bahia", "IOS">>, <<"trancoso", "BPS">>, <<"caraiva", "BPS">>,
      <<"caraíva", "BPS">>, <<"arraial d ajuda", "BPS">>, <<"arraial d'ajuda", "BPS">>,
      <<"arraial dajuda", "BPS">>, <<"praia do forte", "SSA">>, <<"pipa", "NAT">>,
      <<"jericoacoara", "FOR">>, <<"jijoca", "FOR">>, <<"alter do chao", "STM">>,
      <<"alter do chão", "STM">>, <<"chapada dos veadeiros", "BSB">>,
      <<"alto paraiso de goias", "BSB">>, <<"alto paraíso de goiás", "BSB">>,
      <<"chapada dos guimaraes", "CGB">>, <<"chapada dos guimarães", "CGB">>,
      <<"pantanal", "CGR">>, <<"bonito ms", "CGR">>, <<"fernando de noronha", "FEN">>,
      <<"barra grande piaui", "PHB">>, <<"barra grande pi", "PHB">>, <<"nova york", "NYC">>,
      <<"new york", "NYC">>, <<"orlando", "ORL">>, <<"miami", "MIA">>,
      <<"fort lauderdale", "MIA">>, <<"boston", "BOS">>, <<"chicago", "CHI">>,
      <<"washington", "WAS">>, <<"washington dc", "WAS">>, <<"dc", "WAS">>,
      <<"los angeles", "LAX">>, <<"san francisco", "SFO">>, <<"las vegas", "LAS">>,
      <<"seattle", "SEA">>, <<"san diego", "SAN">>, <<"atlanta", "ATL">>, <<"houston", "HOU">>,
      <<"dallas", "DFW">>, <<"honolulu", "HNL">>, <<"cidade do mexico", "MEX">>,
      <<"cdmx", "MEX">>, <<"mexico city", "MEX">>, <<"cancun", "CUN">>,
      <<"riviera maya", "CUN">>, <<"playa del carmen", "CUN">>, <<"tulum", "CUN">>,
      <<"los cabos", "SJD">>, <<"puerto vallarta", "PVR">>, <<"guadalajara", "GDL">>,
      <<"toronto", "YTO">>, <<"montreal", "YMQ">>, <<"vancouver", "YVR">>, <<"quebec", "YQB">>,
      <<"lima", "LIM">>, <<"cusco", "CUZ">>, <<"arequipa", "AQP">>, <<"machu picchu", "CUZ">>,
      <<"bogota", "BOG">>, <<"medellin", "MDE">>, <<"cartagena", "CTG">>,
      <<"san andres", "ADZ">>, <<"san andrés", "ADZ">>, <<"quito", "UIO">>,
      <<"guayaquil", "GYE">>, <<"la paz bolivia", "LPB">>, <<"santa cruz bolivia", "VVI">>,
      <<"uyuni", "UYU">>, <<"buenos aires", "BUE">>, <<"bariloche", "BRC">>,
      <<"mendoza", "MDZ">>, <<"ushuaia", "USH">>, <<"el calafate", "FTE">>,
      <<"santiago", "SCL">>, <<"montevideo", "MVD">>, <<"punta del este", "PDP">>,
      <<"havana", "HAV">>, <<"punta cana", "PUJ">>, <<"republica dominicana", "PUJ">>,
      <<"lisboa", "LIS">>, <<"porto", "OPO">>, <<"faro", "FAO">>, <<"funchal", "FNC">>,
      <<"madeira", "FNC">>, <<"madrid", "MAD">>, <<"barcelona", "BCN">>, <<"valencia", "VLC">>,
      <<"sevilla", "SVQ">>, <<"sevilha", "SVQ">>, <<"malaga", "AGP">>, <<"mallorca", "PMI">>,
      <<"palma de mallorca", "PMI">>, <<"ibiza", "IBZ">>, <<"tenerife", "TCI">>,
      <<"gran canaria", "LPA">>, <<"londres", "LON">>, <<"manchester", "MAN">>,
      <<"edimburgo", "EDI">>, <<"dublin", "DUB">>, <<"paris", "PAR">>, <<"lyon", "LYS">>,
      <<"nice", "NCE">>, <<"cote d azur", "NCE">>, <<"côte d azur", "NCE">>,
      <<"amsterdam", "AMS">>, <<"bruxelas", "BRU">>, <<"berlim", "BER">>,
      <<"frankfurt", "FRA">>, <<"munique", "MUC">>, <<"munich", "MUC">>, <<"hamburgo", "HAM">>,
      <<"dusseldorf", "DUS">>, <<"düsseldorf", "DUS">>, <<"colonia", "CGN">>,
      <<"colônia", "CGN">>, <<"zurique", "ZRH">>, <<"genebra", "GVA">>, <<"basel", "BSL">>,
      <<"viena", "VIE">>, <<"praga", "PRG">>, <<"budapeste", "BUD">>, <<"varsovia", "WAW">>,
      <<"varsóvia", "WAW">>, <<"krakow", "KRK">>, <<"cracovia", "KRK">>,
      <<"copenhague", "CPH">>, <<"estocolmo", "STO">>, <<"oslo", "OSL">>,
      <<"helsinki", "HEL">>, <<"roma", "ROM">>, <<"veneza", "VCE">>, <<"milao", "MIL">>,
      <<"milão", "MIL">>, <<"florenca", "FLR">>, <<"florença", "FLR">>, <<"napoles", "NAP">>,
      <<"nápoles", "NAP">>, <<"atenas", "ATH">>, <<"santorini", "JTR">>, <<"mykonos", "JMK">>,
      <<"casablanca", "CMN">>, <<"marrakesh", "RAK">>, <<"marraquesh", "RAK">>,
      <<"agadir", "AGA">>, <<"cairo", "CAI">>, <<"hurghada", "HRG">>,
      <<"sharm el sheikh", "SSH">>, <<"johanesburgo", "JNB">>, <<"cidade do cabo", "CPT">>,
      <<"cape town", "CPT">>, <<"nairobi", "NBO">>, <<"istambul", "IST">>,
      <<"istanbul", "IST">>, <<"dubai", "DXB">>, <<"abu dhabi", "AUH">>, <<"doha", "DOH">>,
      <<"tel aviv", "TLV">>, <<"toquio", "TYO">>, <<"tokyo", "TYO">>, <<"osaka", "OSA">>,
      <<"kyoto", "OSA">>, <<"nara", "OSA">>, <<"seul", "SEL">>, <<"pequim", "BJS">>,
      <<"beijing", "BJS">>, <<"xangai", "SHA">>, <<"shanghai", "SHA">>, <<"hong kong", "HKG">>,
      <<"macau", "MFM">>, <<"shenzhen", "SZX">>, <<"bangkok", "BKK">>, <<"phuket", "HKT">>,
      <<"chiang mai", "CNX">>, <<"hanoi", "HAN">>, <<"ho chi minh", "SGN">>,
      <<"kuala lumpur", "KUL">>, <<"singapura", "SIN">>, <<"bali", "DPS">>,
      <<"denpasar", "DPS">>, <<"jacarta", "JKT">>, <<"manila", "MNL">>, <<"cebu", "CEB">>,
      <<"delhi", "DEL">>, <<"mumbai", "BOM">>, <<"bangalore", "BLR">>, <<"chennai", "MAA">>,
      <<"hyderabad", "HYD">>, <<"goa", "GOI">>, <<"sydney", "SYD">>, <<"melbourne", "MEL">>,
      <<"brisbane", "BNE">>, <<"perth", "PER">>, <<"adelaide", "ADL">>, <<"auckland", "AKL">>,
      <<"queenstown", "ZQN">>, <<"wellington", "WLG">>, <<"christchurch", "CHC">>,
      <<"portugal", "LIS">>, <<"espanha", "MAD">>, <<"franca", "PAR">>, <<"france", "PAR">>,
      <<"italia", "ROM">>, <<"italy", "ROM">>, <<"alemanha", "BER">>, <<"germany", "BER">>,
      <<"reino unido", "LON">>, <<"uk", "LON">>, <<"united kingdom", "LON">>,
      <<"irlanda", "DUB">>, <<"holanda", "AMS">>, <<"paises baixos", "AMS">>,
      <<"netherlands", "AMS">>, <<"suica", "ZRH">>, <<"switzerland", "ZRH">>,
      <<"austria", "VIE">>, <<"hungria", "BUD">>, <<"polonia", "WAW">>, <<"dinamarca", "CPH">>,
      <<"suecia", "STO">>, <<"noruega", "OSL">>, <<"grecia", "ATH">>, <<"turquia", "IST">>,
      <<"marrocos", "CMN">>, <<"egito", "CAI">>, <<"emirados arabes", "DXB">>,
      <<"emirados", "DXB">>, <<"uae", "DXB">>, <<"qatar", "DOH">>, <<"israel", "TLV">>,
      <<"japao", "TYO">>, <<"coreia do sul", "SEL">>, <<"china", "BJS">>,
      <<"singapura pais", "SIN">>, <<"tailandia", "BKK">>, <<"indonesia", "CGK">>,
      <<"filipinas", "MNL">>, <<"australia", "SYD">>, <<"nova zelandia", "AKL">>,
      <<"canada", "YTO">>, <<"mexico pais", "MEX">>, <<"estados unidos", "NYC">>,
      <<"eua", "NYC">>, <<"usa", "NYC">>, <<"argentina", "BUE">>, <<"chile", "SCL">>,
      <<"uruguai", "MVD">>, <<"peru", "LIM">>, <<"colombia", "BOG">>, <<"bolivia", "LPB">>,
      <<"equador", "UIO">> }

\* null where a code is expected
NoCode == "null"

\* AIRPORT_TO_CITY[up]
AIRPORT_TO_CITY(up) ==
    IF \E p \in AirportToCityPairs : p[1] = up
    THEN (CHOOSE p \in AirportToCityPairs : p[1] = up)[2]
    ELSE NoCode

\* IATA_HINTS[k]
IATA_HINTS(k) ==
    IF \E p \in IataHintPairs : p[1] = k
    THEN (CHOOSE p \in IataHintPairs : p[1] = k)[2]
    ELSE NoCode

(***************************************************************************)
(* looksLikeIata, preferCityCode (lines 338-347)                           *)
(***************************************************************************)
\* faulty variant: the text is matched as written, without toUpperCase
looksLikeIata_AsWritten(s) ==
    LET u    == Chars(s)
        hits == { i \in 1..(Len(u) - 2) :
                    /\ \A k \in 0..2 : InSeq(u[i + k], AsciiUpper)
                    /\ (i = 1 \/ ~IsWordChar(u[i - 1]))
                    /\ (i + 3 > Len(u) \/ ~IsWordChar(u[i + 3])) }
    IN IF hits = {} THEN NoCode
       ELSE LET i == CHOOSE h \in hits : \A j \in hits : h <= j
            IN u[i] \o u[i + 1] \o u[i + 2]

\* String(s).toUpperCase().match(/\b([A-Z]{3})\b/): the first three-letter word
looksLikeIata(s) ==
    LET u    == Chars(UpperCase(s))
        hits == { i \in 1..(Len(u) - 2) :
                    /\ \A k \in 0..2 : InSeq(u[i + k], AsciiUpper)
                    /\ (i = 1 \/ ~IsWordChar(u[i - 1]))
                    /\ (i + 3 > Len(u) \/ ~IsWordChar(u[i + 3])) }
    IN IF hits = {} THEN NoCode
       ELSE LET i == CHOOSE h \in hits : \A j \in hits : h <= j
            IN u[i] \o u[i + 1] \o u[i + 2]

\* faulty variant: the code is upper-cased but not collapsed to its city
preferCityCode_NoCollapse(code) ==
    IF code = NoCode THEN "" ELSE UpperCase(code)

\* const up = String(code || '').toUpperCase(); return AIRPORT_TO_CITY[up] || up
preferCityCode(code) ==
    LET up == IF code = NoCode THEN "" ELSE UpperCase(code)
    IN IF AIRPORT_TO_CITY(up) # NoCode THEN AIRPORT_TO_CITY(up) ELSE up

(***************************************************************************)
(* resolveIataTerm (lines 350-396)                                         *)
(***************************************************************************)
\* raw.split(',')[0]
ByComma(raw) == Text(SplitOn(Chars(raw), ",")[1])

\* the country names of the regular expression of line 363
CountryWords ==
    { "brasil", "brazil", "portugal", "espanha", "italia", "italy", "franca", "france" }

\* normalizeKey(byComma).replace(/\b(brasil|...|france)\b/g, '').trim()
StripCountry(key) ==
    LET ws   == SplitOn(Chars(key), " ")
        kept == [i \in DOMAIN ws |-> IF Text(ws[i]) \in CountryWords THEN <<>> ELSE ws[i]]
    IN Text(Trim(JoinWith(kept, " ")))

\* lines 360-364: the candidates, empty strings filtered out
Candidates(term) ==
    LET raw == term
        all == << raw, ByComma(raw), normalizeKey(raw), normalizeKey(ByComma(raw)),
                  StripCountry(normalizeKey(ByComma(raw))) >>
    IN SelectSeq(all, LAMBDA c : c # "")

\* lines 366-369: the first candidate whose key is in the table
AliasCode(term) ==
    LET cands == Candidates(term)
        hits  == { i \in DOMAIN cands :
                     normalizeKey(cands[i]) # "" /\ IATA_HINTS(normalizeKey(cands[i])) # NoCode }
    IN IF hits = {} THEN NoCode
       ELSE IATA_HINTS(normalizeKey(cands[CHOOSE h \in hits : \A j \in hits : h <= j]))

\* ---- the autocomplete answer -------------------------------------------------
\* one element of the answered array: type, code, city_code ("" when absent);
\* type "null" is an element that is null, on which x.type throws
Place(type, code, cityCode) == [type |-> type, code |-> code, city_code |-> cityCode]

Places ==
    { Place("city", "oak", ""), Place("city", "", ""),
      Place("airport", "BUR", "bur"), Place("airport", "gru", ""), Place("airport", "", ""),
      Place("country", "BR", ""), Place("null", "", "") }

\* the longest answered array
MaxPlaces == 2

\* what the autocomplete request can end in
\*   reject, abort (the 12 s timer), bodyfail : the awaits of lines 375-376 throw
\*   nonjson : safeJson gives {_raw}; object : JSON that is not an array
\*   array   : a JSON array
AutocompleteOutcomes ==
    { [k |-> k, data |-> <<>>] : k \in {"reject", "abort", "bodyfail", "nonjson", "object"} }
    \cup { [k |-> "array", data |-> d] :
             d \in UNION { [1..n -> Places] : n \in 0..MaxPlaces } }

\* lines 379, 382: the two predicates given to data.find
IsCityWithCode(x) == x.type = "city" /\ x.code # ""
IsAirportWithCode(x) == x.type = "airport" /\ (x.city_code # "" \/ x.code # "")

\* data.find(pred), pred being the city or the airport predicate: the index of
\* the first element satisfying it, 0 when none, -1 when the predicate throws
\* (a null element) before an element is found
RECURSIVE Find(_, _, _)
Find(data, kind, i) ==
    IF i > Len(data) THEN 0
    ELSE IF data[i].type = "null" THEN -1
    ELSE IF (IF kind = "city" THEN IsCityWithCode(data[i]) ELSE IsAirportWithCode(data[i])) THEN i
    ELSE Find(data, kind, i + 1)

\* lines 375-390 throw: a failed await, or a null element met by find
AutocompleteThrows(o) ==
    \/ o.k \in {"reject", "abort", "bodyfail"}
    \/ /\ o.k = "array"
       /\ \/ Find(o.data, "city", 1) = -1
          \/ Find(o.data, "city", 1) = 0 /\ Find(o.data, "airport", 1) = -1

\* lines 379-390: the code taken from the answer, null when there is none
AutocompleteCode(o) ==
    IF o.k # "array" \/ o.data = <<>> \/ AutocompleteThrows(o) THEN NoCode
    ELSE LET c == Find(o.data, "city", 1)
             a == Find(o.data, "airport", 1)
         IN IF c > 0 THEN UpperCase(o.data[c].code)
            ELSE IF a = 0 THEN NoCode
            ELSE IF o.data[a].city_code # "" THEN UpperCase(o.data[a].city_code)
            ELSE preferCityCode(UpperCase(o.data[a].code))

\* faulty variant: the autocomplete block has no catch
IaCatches_Uncaught == FALSE

\* line 391: catch (e) { log(...) }
IaCatches == TRUE

\* faulty variant: the step goes on although it found a code
ReturnsAt_Never(code) == FALSE

\* lines 355, 368: if (direct) return ...; if (k && IATA_HINTS[k]) return ...
ReturnsAt(code) == code # NoCode

Step(name, found) == [step |-> name, found |-> found]
NoAutocomplete == [k |-> "none", data |-> <<>>]

\* lines 351-355: an empty term; direct extraction
IaDirect ==
    /\ iaPc = "entered"
    /\ IF iaTerm = ""
       THEN /\ iaPc' = "returned"
            /\ iaRet' = NoCode
            /\ UNCHANGED iaSteps
       ELSE LET direct == looksLikeIata(iaTerm)
            IN /\ iaSteps' = Append(iaSteps, Step("direct", direct))
               /\ IF ReturnsAt(direct)
                  THEN /\ iaPc' = "returned"
                       /\ iaRet' = preferCityCode(direct)
                  ELSE /\ iaPc' = "alias"
                       /\ UNCHANGED iaRet
    /\ UNCHANGED <<iaTerm, iaCalls, iaResp>>
    /\ UNCHANGED <<fxVars, hVars, flVars, rqVars, bgVars, twVars>>

\* lines 358-369: the alias table
IaAlias ==
    /\ iaPc = "alias"
    /\ LET alias == AliasCode(iaTerm)
       IN /\ iaSteps' = Append(iaSteps, Step("alias", alias))
          /\ IF ReturnsAt(alias)
             THEN /\ iaPc' = "returned"
                  /\ iaRet' = alias
             ELSE /\ iaPc' = "autocomplete"
                  /\ UNCHANGED iaRet
    /\ UNCHANGED <<iaTerm, iaCalls, iaResp>>
    /\ UNCHANGED <<fxVars, hVars, flVars, rqVars, bgVars, twVars>>

\* lines 372-395: the autocomplete request and what is made of its answer
IaAutocomplete ==
    /\ iaPc = "autocomplete"
    /\ \E o \in AutocompleteOutcomes :
        /\ iaCalls' = Append(iaCalls, ByComma(iaTerm))
        /\ iaResp' = o
        /\ iaSteps' = Append(iaSteps, Step("autocomplete", AutocompleteCode(o)))
        /\ IF AutocompleteThrows(o) /\ ~IaCatches
           THEN /\ iaPc' = "threw"
                /\ UNCHANGED iaRet
           ELSE /\ iaPc' = "returned"
                /\ iaRet' = AutocompleteCode(o)
    /\ UNCHANGED iaTerm
    /\ UNCHANGED <<fxVars, hVars, flVars, rqVars, bgVars, twVars>>

IataIdle ==
    /\ iaPc = "idle"
    /\ iaTerm = ""
    /\ iaSteps = <<>>
    /\ iaCalls = <<>>
    /\ iaResp = NoAutocomplete
    /\ iaRet = NoCode

(***************************************************************************)
(* handler: the request and what the handler keeps of it                   *)
(***************************************************************************)
\* req.method, the configured credentials and the body fields the handler reads
Request(method, key, destino, diasOk, dataIda, dataVolta, origem, emailDestino, sgKey, mailFrom) ==
    [method |-> method, OPENAI_API_KEY |-> key, destino |-> destino, diasOk |-> diasOk,
     data_ida |-> dataIda, data_volta |-> dataVolta, origem |-> origem,
     emailDestino |-> emailDestino, SENDGRID_API_KEY |-> sgKey, MAIL_FROM |-> mailFrom]

NoRequest ==
    Request("none", FALSE, "", FALSE, AbsentDate, AbsentDate, "", FALSE, FALSE, FALSE)

NoMeta == [normalized_name |-> "", country_name |-> ""]
NoGen  == [done |-> FALSE, usedSearch |-> FALSE, firstOk |-> 0, searchRow |-> FALSE]

RequestIdle ==
    /\ hIn = NoRequest
    /\ hSent = <<>>
    /\ hCalls = <<>>
    /\ hMeta = NoMeta
    /\ hGen = NoGen
    /\ hOrigin = NoCode
    /\ hDest = NoCode
    /\ hTermIdx = 0
    /\ hFlights = NoResult
    /\ hEmail = "none"

\* the trip dates a caller passes: around 2025-12-10, 30, 31 and 45 days later
FlightDates ==
    { <<Date(2025, 12, 10), AbsentDate>>,
      <<Date(2025, 12, 10), InvalidDate>>,
      <<Date(2025, 12, 10), Date(2025, 12, 5)>>,
      <<Date(2025, 12, 10), Date(2026, 1, 9)>>,
      <<Date(2025, 12, 10), Date(2026, 1, 10)>>,
      <<Date(2025, 12, 10), Date(2026, 1, 24)>>,
      <<InvalidDate, Date(2026, 1, 9)>> }

\* the budget step and the second invocation are not part of the run
BudgetIdle ==
    /\ bgPc = "idle"
    /\ bgIn = <<>>
    /\ bgOut = <<>>

TwoIdle ==
    /\ twEnv = ""
    /\ twMod = <<>>
    /\ twInv = <<>>

Limits == {2, DefaultLimit}

FlIdle ==
    /\ flPc = "idle"
    /\ flToken = TRUE
    /\ flArgs = [origin |-> "SAO", destination |-> "MCZ", depart |-> AbsentDate,
                 ret |-> AbsentDate, limit |-> DefaultLimit]
    /\ flForce = FALSE
    /\ flDepth = 0
    /\ flDecomposed = 0
    /\ flQueries = <<>>
    /\ flResps = <<>>
    /\ flOut = NoAnswer
    /\ flCombined = <<>>
    /\ flResult = NoResult

\* a call searchFlightsAviasales({origin, destination, depart, ret, limit})
InitFlights ==
    /\ BudgetIdle
    /\ TwoIdle
    /\ FxIdle
    /\ HandlerIdle
    /\ IataIdle
    /\ RequestIdle
    /\ hPc = "none"
    /\ hCls = <<>>
    /\ flPc = "entered"
    /\ flToken \in BOOLEAN
    /\ \E dd \in FlightDates, lim \in Limits :
          flArgs = [origin |-> "SAO", destination |-> "MCZ", depart |-> dd[1],
                    ret |-> dd[2], limit |-> lim]
    /\ flForce = FALSE
    /\ flDepth = 0
    /\ flDecomposed = 0
    /\ flQueries = <<>>
    /\ flResps = <<>>
    /\ flOut = NoAnswer
    /\ flCombined = <<>>
    /\ flResult = NoResult

NextFlights ==
    \/ FlEnter
    \/ FlOneWayOut
    \/ FlOneWayBack
    \/ FlRoundTrip

SpecFlights == InitFlights /\ [][NextFlights]_vars

InitFx ==
    /\ BudgetIdle
    /\ TwoIdle
    /\ FxIdle
    /\ HandlerIdle
    /\ FlIdle
    /\ IataIdle
    /\ RequestIdle
    /\ hPc = "classified"
    /\ hCls \in ClassifierCurrencies

NextFx ==
    \/ HandlerCallFx
    \/ DirectCallFx
    \/ FxEnter
    \/ \E i \in 1..3 : FxTry(i)
    \/ HandlerFxReturn

SpecFx == InitFx /\ [][NextFx]_vars

(***************************************************************************)
(* resolveIataTerm called on its own                                       *)
(***************************************************************************)
\* each word with a capital first letter
Capitalize(s) ==
    LET cs == Chars(s)
    IN Text([i \in DOMAIN cs |->
                IF i = 1 \/ cs[i - 1] = " " THEN UpperCaseChar(cs[i]) ELSE cs[i]])

\* the alias-table names as a user may write them
HintSpellings == UNION { { p[1], UpperCase(p[1]), Capitalize(p[1]) } : p \in IataHintPairs }

\* texts that carry an airport code of the airport-to-city table
EmbeddedCodeTerms ==
    { pre \o p[1] : pre \in {"", "Aeroporto "}, p \in AirportToCityPairs }
    \cup { "São Paulo, GRU", "São Paulo, CGH", "Rio de Janeiro, GIG", "Foz do Iguaçu, IGU",
           "New York, JFK" }

\* names no table knows, with and without a country, and the empty term
OtherTerms ==
    { "", "Atlantis", "Atlantis, Brasil", "Vila Velha, ES", "São Paulo", "Maragogi, Brasil",
      "maragogi - brasil", "Brasil", "gru", "Campinas, SP" }

IataTerms == HintSpellings \cup EmbeddedCodeTerms \cup OtherTerms

InitIata ==
    /\ BudgetIdle
    /\ TwoIdle
    /\ FxIdle
    /\ HandlerIdle
    /\ FlIdle
    /\ RequestIdle
    /\ hPc = "none"
    /\ hCls = <<>>
    /\ iaPc = "entered"
    /\ iaTerm \in IataTerms
    /\ iaSteps = <<>>
    /\ iaCalls = <<>>
    /\ iaResp = NoAutocomplete
    /\ iaRet = NoCode

NextIata ==
    \/ IaDirect
    \/ IaAlias
    \/ IaAutocomplete

SpecIata == InitIata /\ [][NextIata]_vars

(***************************************************************************)
(* normalizeKey applied to a text, to its own result (as the candidates    *)
(* loop of lines 359-369 does) and to respellings of the text              *)
(***************************************************************************)
Punctuation == Chars(",.;:!?'-/()")

IsPunctuation(c) == InSeq(c, Punctuation)

\* accents removed from a text, the letter case kept
Unaccent(s) == LET cs == Chars(s) IN Text([i \in DOMAIN cs |-> StripAccent(cs[i])])

\* every space doubled, and spaces put around the text
RECURSIVE DoubleSpaces(_)
DoubleSpaces(cs) ==
    IF cs = <<>> THEN <<>>
    ELSE (IF cs[1] = " " THEN <<" ", " ">> ELSE <<cs[1]>>) \o DoubleSpaces(Tail(cs))

WidenSpaces(s) == " " \o Text(DoubleSpaces(Chars(s))) \o "  "

\* every punctuation mark replaced by a space
PunctuationToSpace(s) ==
    LET cs == Chars(s) IN Text([i \in DOMAIN cs |-> IF IsPunctuation(cs[i]) THEN " " ELSE cs[i]])

\* every space replaced by a hyphen, and a full stop at the end
Hyphenate(s) ==
    LET cs == Chars(s) IN Text([i \in DOMAIN cs |-> IF cs[i] = " " THEN "-" ELSE cs[i]]) \o "."

\* every punctuation mark taken out
RECURSIVE DropMarks(_)
DropMarks(cs) ==
    IF cs = <<>> THEN <<>>
    ELSE (IF IsPunctuation(cs[1]) THEN <<>> ELSE <<cs[1]>>) \o DropMarks(Tail(cs))

DropPunctuation(s) == Text(DropMarks(Chars(s)))

\* the respellings of a text: what differs, and the text
Respellings(s) ==
    { [how |-> "case", text |-> UpperCase(s)],
      [how |-> "case", text |-> LowerCase(s)],
      [how |-> "diacritics", text |-> Unaccent(s)],
      [how |-> "spacing", text |-> WidenSpaces(s)],
      [how |-> "separator", text |-> PunctuationToSpace(s)],
      [how |-> "separator", text |-> Hyphenate(s)],
      [how |-> "punctuation", text |-> DropPunctuation(s)] }

KeyTexts ==
    { "", "São Paulo", "sao  paulo", "SÃO PAULO", "Foz do Iguaçu", "Maragogi-AL",
      "Maragogi, AL", "Sant'Ana do Livramento", "Washington, D.C.", " Rio de Janeiro ",
      "João Pessoa", "Belém/PA", "GRU", "lençóis bahia", "St. John's", "Vitória (ES)",
      "Brasília", "Ilha do Mel!", "Goiânia", "sao paulo" }

KeyEntry(how, text) == [how |-> how, text |-> text, key |-> normalizeKey(text)]

\* line 362: normalizeKey(raw)
KeyApply ==
    /\ iaPc = "key"
    /\ iaSteps = <<>>
    /\ iaSteps' = <<KeyEntry("text", iaTerm)>>
    /\ UNCHANGED <<iaPc, iaTerm, iaCalls, iaResp, iaRet>>
    /\ UNCHANGED <<fxVars, hVars, flVars, rqVars, bgVars, twVars>>

\* line 367: const k = normalizeKey(c), for the candidate c = normalizeKey(raw)
KeyAgain ==
    /\ iaPc = "key"
    /\ Len(iaSteps) = 1
    /\ iaSteps' = Append(iaSteps, KeyEntry("again", iaSteps[1].key))
    /\ UNCHANGED <<iaPc, iaTerm, iaCalls, iaResp, iaRet>>
    /\ UNCHANGED <<fxVars, hVars, flVars, rqVars, bgVars, twVars>>

\* normalizeKey of a respelling of the text
KeyRespell ==
    /\ iaPc = "key"
    /\ Len(iaSteps) = 2
    /\ \E r \in Respellings(iaTerm) :
          iaSteps' = Append(iaSteps, KeyEntry(r.how, r.text))
    /\ UNCHANGED <<iaPc, iaTerm, iaCalls, iaResp, iaRet>>
    /\ UNCHANGED <<fxVars, hVars, flVars, rqVars, bgVars, twVars>>

InitKey ==
    /\ BudgetIdle
    /\ TwoIdle
    /\ FxIdle
    /\ HandlerIdle
    /\ FlIdle
    /\ RequestIdle
    /\ hPc = "none"
    /\ hCls = <<>>
    /\ iaPc = "key"
    /\ iaTerm \in KeyTexts
    /\ iaSteps = <<>>
    /\ iaCalls = <<>>
    /\ iaResp = NoAutocomplete
    /\ iaRet = NoCode

NextKey ==
    \/ KeyApply
    \/ KeyAgain
    \/ KeyRespell

SpecKey == InitKey /\ [][NextKey]_vars

(***************************************************************************)
(* handler (lines 612-1174)                                                *)
(***************************************************************************)
\* one entry of the list of external calls of a request: the service and a note
\* (how the classifier request ended, whose code an autocomplete request is for,
\* how the email send ended)
Call(svc, note) == [svc |-> svc, note |-> note]

\* one response: res.status(status).json(...); the flight section and the
\* email field of a 200 payload
Sent(status, kind, flights, email) ==
    [status |-> status, kind |-> kind, flights |-> flights, email |-> email]

ErrorSent(status, kind) == Sent(status, kind, NoResult, "none")

\* ---- validation (lines 616-697) -----------------------------------------
\* the response the checks before the classifier call end in, status 0 if none
Validation(in) ==
    IF in.method # "POST" THEN ErrorSent(405, "Method Not Allowed")
    ELSE IF ~in.OPENAI_API_KEY THEN ErrorSent(500, "OPENAI_API_KEY")
    ELSE IF in.destino = "" THEN ErrorSent(400, "destino")
    ELSE IF ~in.diasOk THEN ErrorSent(400, "dias")
    ELSE ErrorSent(0, "none")

HandlerStart ==
    /\ hPc = "start"
    /\ IF Validation(hIn).status # 0
       THEN /\ hSent' = Append(hSent, Validation(hIn))
            /\ hPc' = "responded"
       ELSE /\ hPc' = "classify"
            /\ UNCHANGED hSent
    /\ UNCHANGED <<hCls, hMetaCur, hFx, hConv>>
    /\ UNCHANGED <<hIn, hCalls, hMeta, hGen, hOrigin, hDest, hTermIdx, hFlights, hEmail>>
    /\ UNCHANGED <<fxVars, flVars, iaVars, bgVars, twVars>>

\* ---- classification (lines 713-745) -------------------------------------
\* the fields of the classifier's JSON the later steps read ("" and <<>>: absent)
ClassifierMeta(name, country, currency) ==
    [normalized_name |-> name, country_name |-> country, currency_code |-> currency]

EmptyMeta == ClassifierMeta("", "", <<>>)

ClassifierMetas ==
    { ClassifierMeta("Orlando", "Estados Unidos", USD), EmptyMeta }

\* what the classifier request can end in
\*   reject, abort        : fetchWithTimeout throws (network error, the 25 s timer)
\*   nonok / ok           : the status; then the body: read, unreadable (bodyfail),
\*                          or never complete (stall: no timer covers the read)
ClassifyOutcomes ==
    { [k |-> k, status |-> 0, body |-> "none", meta |-> EmptyMeta] : k \in {"reject", "abort"} }
    \cup { [k |-> "nonok", status |-> st, body |-> b, meta |-> EmptyMeta] :
             st \in {401, 500}, b \in {"text", "bodyfail", "stall"} }
    \cup { [k |-> "ok", status |-> 200, body |-> "json", meta |-> m] : m \in ClassifierMetas }
    \cup { [k |-> "ok", status |-> 200, body |-> b, meta |-> EmptyMeta] :
             b \in {"nonjson", "bodyfail", "stall"} }

\* lines 731-732, 734: normalized_name: m.normalized_name || destinoEntrada
MetaOf(m, destino) ==
    [normalized_name |-> IF m.normalized_name = "" THEN destino ELSE m.normalized_name,
     country_name |-> m.country_name]

HandlerClassify ==
    /\ hPc = "classify"
    /\ \E o \in ClassifyOutcomes :
        /\ hCalls' = Append(hCalls, Call("classify", o.k))
        /\ IF o.k \in {"reject", "abort"} \/ o.body = "bodyfail"
           THEN /\ hPc' = "caught500"
                /\ UNCHANGED <<hSent, hCls, hMeta>>
           ELSE IF o.body = "stall"
           THEN /\ hPc' = "stalled"
                /\ UNCHANGED <<hSent, hCls, hMeta>>
           ELSE IF o.k = "nonok"
           THEN /\ hSent' = Append(hSent, ErrorSent(o.status, "Falha ao classificar destino"))
                /\ hPc' = "responded"
                /\ UNCHANGED <<hCls, hMeta>>
           ELSE /\ hCls' = o.meta.currency_code
                /\ hMeta' = MetaOf(o.meta, hIn.destino)
                /\ hPc' = "classified"
                /\ UNCHANGED hSent
    /\ UNCHANGED <<hMetaCur, hFx, hConv>>
    /\ UNCHANGED <<hIn, hGen, hOrigin, hDest, hTermIdx, hFlights, hEmail>>
    /\ UNCHANGED <<fxVars, flVars, iaVars, bgVars, twVars>>

\* ---- narrative generation (lines 898-972) --------------------------------
GenStrategies == <<"responses+search", "responses", "chat">>

GenOutcomes ==
    { [k |-> k, body |-> "none"] : k \in {"reject", "abort"} }
    \cup { [k |-> "ok", body |-> b] : b \in {"json", "bodyfail", "stall"} }
    \cup { [k |-> "nonok", body |-> b] : b \in {"text", "bodyfail", "stall"} }

\* the strategies tried so far
GenTried == Cardinality({ i \in DOMAIN hCalls : hCalls[i].svc \in
                            { GenStrategies[j] : j \in DOMAIN GenStrategies } })

\* faulty variant: no strategy is wrapped in try/catch
GenCatches_None(i) == FALSE

\* lines 900-925 and 928-948 are try/catch blocks, lines 951-969 are not
GenCatches(i) == i \in 1..2

\* the strategy's request or body read throws
GenThrows(o) == o.k \in {"reject", "abort"} \/ o.body = "bodyfail"

\* strategy i gives the result: a success status whose body was read (a body
\* that is not JSON still gives a result, with an empty html)
GenSucceeds(o) == o.k = "ok" /\ o.body = "json"

\* faulty variant: both Responses API strategies report a web search
UsedSearch_AnyResponses(i) == i \in 1..2

\* lines 918, 941, 968: usedSearch of the result of strategy i
UsedSearch(i) == i = 1

\* lines 1002, 1122: if (gen.usedSearch) the row 'Pesquisa na web' is added
SearchRow(usedSearch) == usedSearch

\* lines 914, 937, 961: the first strategy whose response had a success status
FirstOk(o, i) == IF o.k = "ok" /\ hGen.firstOk = 0 THEN i ELSE hGen.firstOk

\* one strategy; after the third, line 965 throws when it did not succeed
HandlerGenerate(i) ==
    /\ hPc = "generate"
    /\ i = GenTried + 1
    /\ i <= Len(GenStrategies)
    /\ \E o \in GenOutcomes :
        /\ hCalls' = Append(hCalls, Call(GenStrategies[i], "request"))
        /\ IF o.body = "stall"
           THEN /\ hPc' = "stalled"
                /\ hGen' = [hGen EXCEPT !.firstOk = FirstOk(o, i)]
           ELSE IF GenSucceeds(o)
           THEN /\ hGen' = [done |-> TRUE, usedSearch |-> UsedSearch(i),
                            firstOk |-> FirstOk(o, i),
                            searchRow |-> SearchRow(UsedSearch(i))]
                /\ hPc' = "flights"
           ELSE IF GenThrows(o) /\ ~GenCatches(i)
           THEN /\ hPc' = "caught500"
                /\ hGen' = [hGen EXCEPT !.firstOk = FirstOk(o, i)]
           ELSE IF i < Len(GenStrategies)
           THEN /\ hGen' = [hGen EXCEPT !.firstOk = FirstOk(o, i)]
                /\ UNCHANGED hPc
           ELSE /\ hPc' = "caught500"
                /\ hGen' = [hGen EXCEPT !.firstOk = FirstOk(o, i)]
    /\ UNCHANGED <<hCls, hMetaCur, hFx, hConv>>
    /\ UNCHANGED <<hIn, hSent, hMeta, hOrigin, hDest, hTermIdx, hFlights, hEmail>>
    /\ UNCHANGED <<fxVars, flVars, iaVars, bgVars, twVars>>

\* ---- flights stage (lines 1026-1068) -------------------------------------
\* faulty variant: the dates are not looked at
FlightsWanted_OriginOnly(in) == in.origem # ""

\* line 1028: if (dataIda && dataVolta && origemEntrada)
FlightsWanted(in) == Present(in.data_ida) /\ Present(in.data_volta) /\ in.origem # ""

\* lines 1034-1038: tryTerms, the empty ones filtered out
TryTerms(in, meta) ==
    SelectSeq(<< in.destino, meta.normalized_name,
                 IF meta.country_name # ""
                 THEN meta.normalized_name \o ", " \o meta.country_name ELSE "" >>,
              LAMBDA t : t # "")

\* faulty variant: the code is passed on as resolveIataTerm returned it
CityOrNull_AsReturned(r) == r

\* lines 1031, 1043: r ? preferCityCode(r) : null
CityOrNull(r) == IF r # NoCode THEN preferCityCode(r) ELSE NoCode

\* faulty variant: one resolved code is enough
BothResolved_Either(o, d) == o # NoCode \/ d # NoCode

\* line 1048: if (originIata && destIata)
BothResolved(o, d) == o # NoCode /\ d # NoCode

\* faulty variant: nothing is put in the flight section
UnresolvedResult_Omitted == NoResult

\* line 1059
UnresolvedResult ==
    Result("error", <<"Não", "foi", "possível", "resolver", "IATA", "de", "origem", "ou", "destino.">>,
           0, NoAnswer, <<>>, <<>>, <<>>, <<>>)

\* line 1067
FlightsException ==
    Result("error", <<"Falha", "ao", "buscar", "passagens">>, 0, NoAnswer, <<>>, <<>>, <<>>, <<>>)

\* the autocomplete requests of the resolveIataTerm call that has just returned
AutocompleteLog(role) == [i \in DOMAIN iaCalls |-> Call("autocomplete", role)]

\* resolveIataTerm(term) is called
CallResolve(term) ==
    /\ iaPc' = "entered"
    /\ iaTerm' = term
    /\ iaSteps' = <<>>
    /\ iaCalls' = <<>>
    /\ iaResp' = NoAutocomplete
    /\ iaRet' = NoCode

\* searchFlightsAviasales({origin, destination, depart, ret, limit: 6}) is called
CallSearch(o, d) ==
    /\ flPc' = "entered"
    /\ flArgs' = [origin |-> o, destination |-> d, depart |-> hIn.data_ida,
                  ret |-> hIn.data_volta, limit |-> DefaultLimit]
    /\ UNCHANGED <<flToken, flForce, flDepth, flDecomposed, flQueries, flResps, flOut,
                   flCombined, flResult>>

\* lines 1026-1030 and 1061-1064
HandlerFlightsStart ==
    /\ hPc = "flights"
    /\ IF FlightsWanted(hIn)
       THEN /\ CallResolve(hIn.origem)
            /\ hPc' = "awaitOrigin"
            /\ UNCHANGED hFlights
       ELSE /\ hFlights' = NoResult
            /\ hPc' = "email"
            /\ UNCHANGED iaVars
    /\ UNCHANGED <<hCls, hMetaCur, hFx, hConv>>
    /\ UNCHANGED <<hIn, hSent, hCalls, hMeta, hGen, hOrigin, hDest, hTermIdx, hEmail>>
    /\ UNCHANGED <<fxVars, flVars, bgVars, twVars>>

\* lines 1030-1042: the origin is back, the first destination term is tried
HandlerOriginReturn ==
    /\ hPc = "awaitOrigin"
    /\ iaPc \in {"returned", "threw"}
    /\ hCalls' = hCalls \o AutocompleteLog("origin")
    /\ IF iaPc = "threw"
       THEN /\ hFlights' = FlightsException
            /\ hPc' = "email"
            /\ UNCHANGED <<hOrigin, hTermIdx, iaVars>>
       ELSE /\ hOrigin' = CityOrNull(iaRet)
            /\ hTermIdx' = 1
            /\ CallResolve(TryTerms(hIn, hMeta)[1])
            /\ hPc' = "awaitDest"
            /\ UNCHANGED hFlights
    /\ UNCHANGED <<hCls, hMetaCur, hFx, hConv>>
    /\ UNCHANGED <<hIn, hSent, hMeta, hGen, hDest, hEmail>>
    /\ UNCHANGED <<fxVars, flVars, bgVars, twVars>>

\* lines 1041-1060: one destination term is back; the next term, the flight
\* search, or the error object
HandlerDestReturn ==
    /\ hPc = "awaitDest"
    /\ iaPc \in {"returned", "threw"}
    /\ hCalls' = hCalls \o AutocompleteLog("destination")
    /\ IF iaPc = "threw"
       THEN /\ hFlights' = FlightsException
            /\ hPc' = "email"
            /\ UNCHANGED <<hDest, hTermIdx, iaVars, flVars>>
       ELSE IF iaRet = NoCode /\ hTermIdx < Len(TryTerms(hIn, hMeta))
       THEN /\ hTermIdx' = hTermIdx + 1
            /\ CallResolve(TryTerms(hIn, hMeta)[hTermIdx + 1])
            /\ UNCHANGED <<hPc, hDest, hFlights, flVars>>
       ELSE /\ hDest' = CityOrNull(iaRet)
            /\ IF BothResolved(hOrigin, CityOrNull(iaRet))
               THEN /\ CallSearch(hOrigin, CityOrNull(iaRet))
                    /\ hPc' = "awaitFlights"
                    /\ UNCHANGED hFlights
               ELSE /\ hFlights' = UnresolvedResult
                    /\ hPc' = "email"
                    /\ UNCHANGED flVars
            /\ UNCHANGED <<hTermIdx, iaVars>>
    /\ UNCHANGED <<hCls, hMetaCur, hFx, hConv>>
    /\ UNCHANGED <<hIn, hSent, hMeta, hGen, hOrigin, hEmail>>
    /\ UNCHANGED <<fxVars, bgVars, twVars>>

\* lines 1049-1057 and 1065-1068: the search is back, or its exception is caught
HandlerFlightsReturn ==
    /\ hPc = "awaitFlights"
    /\ flPc \in {"returned", "threw"}
    /\ hFlights' = IF flPc = "threw" THEN FlightsException ELSE flResult
    /\ hPc' = "email"
    /\ UNCHANGED <<hCls, hMetaCur, hFx, hConv>>
    /\ UNCHANGED <<hIn, hSent, hCalls, hMeta, hGen, hOrigin, hDest, hTermIdx, hEmail>>
    /\ UNCHANGED <<fxVars, flVars, iaVars, bgVars, twVars>>

\* ---- email and the response (lines 1070-1169) ----------------------------
\* faulty variant: only the recipient is looked at
EmailWanted_RecipientOnly(in) == in.emailDestino

\* line 1129: if (emailDestino && SENDGRID_API_KEY && MAIL_FROM)
EmailWanted(in) == in.emailDestino /\ in.SENDGRID_API_KEY /\ in.MAIL_FROM

\* sgMail.send resolves, rejects, or never settles (the call has no timer)
EmailOutcomes == {"sent", "rejected", "stall"}

\* lines 1158, 1161: payloadOut.email
EmailField(o) == IF o = "sent" THEN "enviado" ELSE "erro"

HandlerEmail ==
    /\ hPc = "email"
    /\ IF EmailWanted(hIn)
       THEN \E o \in EmailOutcomes :
              /\ hCalls' = Append(hCalls, Call("email", o))
              /\ IF o = "stall"
                 THEN /\ hPc' = "stalled"
                      /\ UNCHANGED <<hEmail, hSent>>
                 ELSE /\ hEmail' = EmailField(o)
                      /\ hSent' = Append(hSent, Sent(200, "itinerary", hFlights, EmailField(o)))
                      /\ hPc' = "responded"
       ELSE /\ hSent' = Append(hSent, Sent(200, "itinerary", hFlights, "none"))
            /\ hPc' = "responded"
            /\ UNCHANGED <<hCalls, hEmail>>
    /\ UNCHANGED <<hCls, hMetaCur, hFx, hConv>>
    /\ UNCHANGED <<hIn, hMeta, hGen, hOrigin, hDest, hTermIdx, hFlights>>
    /\ UNCHANGED <<fxVars, flVars, iaVars, bgVars, twVars>>

\* lines 1170-1173: the outer catch
HandlerCatch ==
    /\ hPc = "caught500"
    /\ hSent' = Append(hSent, ErrorSent(500, "Falha interna."))
    /\ hPc' = "responded"
    /\ UNCHANGED <<hCls, hMetaCur, hFx, hConv>>
    /\ UNCHANGED <<hIn, hCalls, hMeta, hGen, hOrigin, hDest, hTermIdx, hFlights, hEmail>>
    /\ UNCHANGED <<fxVars, flVars, iaVars, bgVars, twVars>>

\* ---- a response body that never completes --------------------------------
\* fetchWithTimeout (lines 30-37) clears its timer once fetch has resolved, that
\* is when the status and headers are in; safeJson / res.text() (lines 39-42)
\* then read the body with no timer running, so the await can stay pending.
FxStall ==
    /\ fxPc = "trying"
    /\ fxCalls' = Append(fxCalls, Providers[fxNext])
    /\ fxResps' = Append(fxResps, [k |-> "bodystall", rate |-> NotNum("undefined"),
                                   date |-> "absent"])
    /\ fxPc' = "stalled"
    /\ UNCHANGED <<fxCode, fxNext, fxRet>>
    /\ UNCHANGED <<hVars, flVars, iaVars, rqVars, bgVars, twVars>>

IaStall ==
    /\ iaPc = "autocomplete"
    /\ iaCalls' = Append(iaCalls, ByComma(iaTerm))
    /\ iaResp' = [k |-> "bodystall", data |-> <<>>]
    /\ iaPc' = "stalled"
    /\ UNCHANGED <<iaTerm, iaSteps, iaRet>>
    /\ UNCHANGED <<fxVars, hVars, flVars, rqVars, bgVars, twVars>>

FlStall ==
    /\ flPc \in {"oneWayOut", "oneWayBack", "roundTrip"}
    /\ flQueries' = Append(flQueries,
          IF flPc = "roundTrip"
          THEN Query(flArgs.origin, flArgs.destination, flArgs.depart, flArgs.ret)
          ELSE IF flPc = "oneWayOut"
          THEN Query(flArgs.origin, flArgs.destination, flArgs.depart, AbsentDate)
          ELSE Query(flArgs.destination, flArgs.origin, flArgs.ret, AbsentDate))
    /\ flResps' = Append(flResps, Thrown("bodystall"))
    /\ flPc' = "stalled"
    /\ UNCHANGED <<flToken, flArgs, flForce, flDepth, flDecomposed, flOut, flCombined, flResult>>
    /\ UNCHANGED <<fxVars, hVars, iaVars, rqVars, bgVars, twVars>>

\* ---- the answers of the services within one request ----------------------
\* one answer of each kind the handler can tell apart
RequestFxOutcomes ==
    { [k |-> "abort", rate |-> NotNum("undefined"), date |-> "absent"],
      [k |-> "json", rate |-> Num(9, 50), date |-> "valid"] }

RequestAutocompleteOutcomes ==
    { [k |-> k, data |-> <<>>] : k \in {"reject", "abort", "nonjson"} }
    \cup { [k |-> "array", data |-> <<>>],
           [k |-> "array", data |-> <<Place("city", "oak", "")>>] }

RequestFlightOutcomes ==
    { Thrown("abort"),
      Answer(TRUE, 200, <<>>, <<>>, <<>>, TRUE,
             << CHOOSE x \in RawOffers : x.airline = "LA",
                CHOOSE x \in RawOffers : x.airline = "G3" >>),
      Answer(FALSE, 400, SpanText, <<>>, <<>>, FALSE, <<>>),
      Answer(FALSE, 500, OtherText, <<>>, <<>>, FALSE, <<>>) }

RequestFxTry(i) == FxTry(i) /\ fxResps'[Len(fxResps')] \in RequestFxOutcomes

RequestAutocomplete == IaAutocomplete /\ iaResp' \in RequestAutocompleteOutcomes

RequestOneWayOut == FlOneWayOut /\ flResps'[Len(flResps')] \in RequestFlightOutcomes

RequestOneWayBack == FlOneWayBack /\ flResps'[Len(flResps')] \in RequestFlightOutcomes

RequestRoundTrip == FlRoundTrip /\ flResps'[Len(flResps')] \in RequestFlightOutcomes

\* ---- the requests -----------------------------------------------------------
\* well-formed requests: destination, trip dates, origin, email recipient; one
\* without a departure date; three with the mail credential or the sender missing
ValidRequests ==
    { Request("POST", TRUE, d, TRUE, Date(2025, 12, 10), v, o, e, TRUE, TRUE) :
        d \in {"Orlando", "Atlantis"},
        v \in {Date(2025, 12, 20), AbsentDate},
        o \in {"São Paulo, GRU", "Vila Nova", ""},
        e \in BOOLEAN }
    \cup { Request("POST", TRUE, "Orlando", TRUE, AbsentDate, Date(2025, 12, 20),
                   "São Paulo, GRU", FALSE, TRUE, TRUE) }
    \cup { Request("POST", TRUE, "Orlando", TRUE, Date(2025, 12, 10), AbsentDate, "",
                   TRUE, k, f) : k, f \in BOOLEAN }

\* requests the validation turns away
InvalidRequests ==
    { Request("GET", TRUE, "Orlando", TRUE, AbsentDate, AbsentDate, "", FALSE, TRUE, TRUE),
      Request("POST", FALSE, "Orlando", TRUE, AbsentDate, AbsentDate, "", FALSE, TRUE, TRUE),
      Request("POST", TRUE, "", TRUE, AbsentDate, AbsentDate, "", FALSE, TRUE, TRUE),
      Request("POST", TRUE, "Orlando", FALSE, AbsentDate, AbsentDate, "", FALSE, TRUE, TRUE) }

InitHandler ==
    /\ BudgetIdle
    /\ TwoIdle
    /\ FxIdle
    /\ HandlerIdle
    /\ IataIdle
    /\ hPc = "start"
    /\ hCls = <<>>
    /\ hIn \in ValidRequests \cup InvalidRequests
    /\ hSent = <<>>
    /\ hCalls = <<>>
    /\ hMeta = NoMeta
    /\ hGen = NoGen
    /\ hOrigin = NoCode
    /\ hDest = NoCode
    /\ hTermIdx = 0
    /\ hFlights = NoResult
    /\ hEmail = "none"
    /\ flPc = "idle"
    /\ flToken \in BOOLEAN
    /\ flArgs = [origin |-> "", destination |-> "", depart |-> AbsentDate,
                 ret |-> AbsentDate, limit |-> DefaultLimit]
    /\ flForce = FALSE
    /\ flDepth = 0
    /\ flDecomposed = 0
    /\ flQueries = <<>>
    /\ flResps = <<>>
    /\ flOut = NoAnswer
    /\ flCombined = <<>>
    /\ flResult = NoResult

NextHandler ==
    \/ HandlerStart
    \/ HandlerClassify
    \/ HandlerCallFx
    \/ FxEnter
    \/ \E i \in 1..3 : RequestFxTry(i)
    \/ FxStall
    \/ HandlerFxReturn
    \/ \E i \in 1..3 : HandlerGenerate(i)
    \/ HandlerFlightsStart
    \/ IaDirect
    \/ IaAlias
    \/ RequestAutocomplete
    \/ IaStall
    \/ HandlerOriginReturn
    \/ HandlerDestReturn
    \/ FlEnter
    \/ RequestOneWayOut
    \/ RequestOneWayBack
    \/ RequestRoundTrip
    \/ FlStall
    \/ HandlerFlightsReturn
    \/ HandlerEmail
    \/ HandlerCatch

SpecHandler == InitHandler /\ [][NextHandler]_vars

\* one request that wants flights and an email, with the flight credential set
InitHandlerFair ==
    /\ InitHandler
    /\ flToken
    /\ hIn = Request("POST", TRUE, "Atlantis", TRUE, Date(2025, 12, 10), Date(2025, 12, 20),
                     "Vila Nova", TRUE, TRUE, TRUE)

\* the runtime resumes every await whose promise has settled
SpecHandlerFair == InitHandlerFair /\ [][NextHandler]_vars /\ WF_vars(NextHandler)

(***************************************************************************)
(* Party size, budgets and money rows of the handler                       *)
(* (lines 65-87, 471-478, 667, 673-694, 775-778, 998-999, 1120-1121)       *)
(*                                                                         *)
(* Numbers are exact fractions n/d in lowest terms with d > 0; NaN and     *)
(* null are the values NaN and Null.                                       *)
(***************************************************************************)
NaN == NotNum("nan")

Abs(i) == IF i < 0 THEN -i ELSE i

RECURSIVE Gcd(_, _)
Gcd(a, b) == IF b = 0 THEN a ELSE Gcd(b, a % b)

\* the fraction n/d in lowest terms
Frac(n, d) ==
    LET g == Gcd(Abs(n), Abs(d))
        s == IF d < 0 THEN -1 ELSE 1
    IN Num((s * n) \div g, (s * d) \div g)

\* a * b and a / b of two numbers (NaN in, NaN out; x / 0 is not finite)
Times(a, b) ==
    IF a.t # "num" \/ b.t # "num" THEN NaN ELSE Frac(a.n * b.n, a.d * b.d)

Over(a, b) ==
    IF a.t # "num" \/ b.t # "num" THEN NaN
    ELSE IF b.n = 0 THEN NotNum("infinity")
    ELSE Frac(a.n * b.d, a.d * b.n)

\* a <= b and a > 0 of two finite numbers
LessEq(a, b) == a.n * b.d <= b.n * a.d
Positive(a) == a.t = "num" /\ a.n > 0

\* the value in a condition: null, undefined, NaN and 0 are falsy
Truthy(v) == v.t = "num" /\ v.n # 0

\* Number(v ?? dflt) for a number, a missing value or a non-numeric text
NumberOr(v, dflt) ==
    IF v.t \in {"undefined", "null"} THEN dflt
    ELSE IF v.t = "num" THEN v
    ELSE NaN

\* Math.max(1, v): NaN when v is NaN
MathMax1(v) ==
    IF v.t # "num" THEN NaN
    ELSE IF LessEq(v, One) THEN One ELSE v

\* line 667: const pessoas = Math.max(1, Number(body.pessoas ?? 1))
Pessoas(raw) == MathMax1(NumberOr(raw, One))

\* lines 65-80, parseBudgetBR of a number or a missing value: the number if it
\* is finite, else null
parseBudgetBR(input) == IF input.t = "num" THEN input ELSE Null

\* faulty variant: the tolerance is 20%
almostEqual_Wide(a, b) ==
    /\ IsFiniteNumber(a)
    /\ IsFiniteNumber(b)
    /\ \/ a.n = 0 /\ b.n = 0
       \/ LET diff == Abs(a.n * b.d - b.n * a.d)
              maxi == IF Abs(a.n) * b.d >= Abs(b.n) * a.d
                      THEN Abs(a.n) * b.d ELSE Abs(b.n) * a.d
          IN 5 * diff <= maxi

\* lines 83-87: |a - b| / max(|a|, |b|) <= 0.02, over the common denominator
almostEqual(a, b) ==
    /\ IsFiniteNumber(a)
    /\ IsFiniteNumber(b)
    /\ \/ a.n = 0 /\ b.n = 0
       \/ LET diff == Abs(a.n * b.d - b.n * a.d)
              maxi == IF Abs(a.n) * b.d >= Abs(b.n) * a.d
                      THEN Abs(a.n) * b.d ELSE Abs(b.n) * a.d
          IN 50 * diff <= maxi

Ten == Num(10, 1)

\* lines 673-694: the two budgets of the request after reconciliation.
\* divs lists the divisors of the divisions evaluated on the way.
Budget(orc0, pp0, pessoas) ==
    IF Truthy(orc0) /\ Truthy(pp0)
    THEN LET fromPP == Times(pp0, MathMax1(pessoas))
             fixTotal == almostEqual(orc0, Times(fromPP, Ten))
             fixPP == ~fixTotal /\ almostEqual(fromPP, Times(orc0, Ten))
             orc == IF fixTotal THEN fromPP ELSE orc0
             pp == IF fixPP THEN Over(orc0, MathMax1(pessoas)) ELSE pp0
             split == Truthy(orc) /\ Truthy(pessoas)
         IN [branch |-> IF fixTotal THEN "fixTotal" ELSE IF fixPP THEN "fixPP" ELSE "both",
             orcamento |-> orc, orcamentoPorPessoa |-> pp,
             orcTotal |-> orc,
             orcPerPerson |-> IF split THEN Over(orc, pessoas) ELSE pp,
             divs |-> (IF fixPP THEN {MathMax1(pessoas)} ELSE {})
                      \cup (IF split THEN {pessoas} ELSE {})]
    ELSE IF Truthy(orc0)
    THEN [branch |-> "total",
          orcamento |-> orc0, orcamentoPorPessoa |-> pp0,
          orcTotal |-> orc0,
          orcPerPerson |-> IF Truthy(pessoas) THEN Over(orc0, pessoas) ELSE Null,
          divs |-> IF Truthy(pessoas) THEN {pessoas} ELSE {}]
    ELSE IF Truthy(pp0)
    THEN [branch |-> "perPerson",
          orcamento |-> orc0, orcamentoPorPessoa |-> pp0,
          orcTotal |-> IF Truthy(pessoas) THEN Times(pp0, pessoas) ELSE Null,
          orcPerPerson |-> pp0,
          divs |-> {}]
    ELSE [branch |-> "none",
          orcamento |-> orc0, orcamentoPorPessoa |-> pp0,
          orcTotal |-> Null, orcPerPerson |-> Null, divs |-> {}]

NoMoney == [brl |-> Null, local |-> Null]

\* faulty variant: a rate of 0 is converted with
pairBRLWithLocal_ZeroRate(brlValue, quoteCode, brlToQuote) ==
    IF ~IsFiniteNumber(brlValue) THEN NoMoney
    ELSE IF quoteCode = <<>> \/ ToUpper(quoteCode) = BRL
            \/ ~IsFiniteNumber(brlToQuote) \/ brlToQuote.n < 0
    THEN [brl |-> brlValue, local |-> Null]
    ELSE [brl |-> brlValue, local |-> Times(brlValue, brlToQuote)]

\* lines 471-478: the BRL amount, and the converted amount when there is a
\* foreign currency and a positive finite rate
pairBRLWithLocal(brlValue, quoteCode, brlToQuote) ==
    IF ~IsFiniteNumber(brlValue) THEN NoMoney
    ELSE IF quoteCode = <<>> \/ ToUpper(quoteCode) = BRL
            \/ ~IsFiniteNumber(brlToQuote) \/ brlToQuote.n <= 0
    THEN [brl |-> brlValue, local |-> Null]
    ELSE [brl |-> brlValue, local |-> Times(brlValue, brlToQuote)]

\* lines 998-999 and 1120-1121: the budget rows of the summary and of the
\* email table (the same two guarded rows in both)
BudgetRows(b, currency_code, fx) ==
    (IF Truthy(b.orcTotal) /\ Positive(b.orcTotal)
     THEN << [label |-> "Orçamento total",
              value |-> pairBRLWithLocal(b.orcTotal, currency_code, fx.brl_to_quote)] >>
     ELSE <<>>)
    \o
    (IF Truthy(b.orcPerPerson) /\ Positive(b.orcPerPerson)
     THEN << [label |-> "Orçamento por pessoa",
              value |-> pairBRLWithLocal(b.orcPerPerson, currency_code, fx.brl_to_quote)] >>
     ELSE <<>>)

\* body.pessoas: missing, null, zero, negative, fractional, whole, text
PessoasInputs ==
    { Undefined, Null, NotNum("string"), Zero, Num(-3, 1), Num(1, 2), One,
      Num(2, 1), Num(5, 2), Ten }

\* body.orcamento and body.orcamento_por_pessoa
TotalInputs ==
    { Undefined, Zero, Num(5000, 1), Num(11000, 1), Num(110000, 1), Num(112200, 1),
      Num(112300, 1), Num(1100, 1), Num(-500, 1) }
PerPersonInputs ==
    { Undefined, Zero, Num(1100, 1), Num(1000, 1), Num(11000, 1), Num(250, 1) }

\* the quote of the request and the currency code of the classifier
QuoteInputs ==
    { [q |-> FxUnavailable, cur |-> USD],
      [q |-> FxQuote([k |-> "json", rate |-> Num(9, 50), date |-> "absent"], 1), cur |-> USD],
      [q |-> FxNone, cur |-> BRL] }

NoBudget ==
    [branch |-> "none", orcamento |-> Null, orcamentoPorPessoa |-> Null,
     orcTotal |-> Null, orcPerPerson |-> Null, divs |-> {}]

\* line 667
BgParty ==
    /\ bgPc = "start"
    /\ bgPc' = "party"
    /\ bgOut' = [bgOut EXCEPT !.pessoas = Pessoas(bgIn.pessoas)]
    /\ UNCHANGED bgIn
    /\ UNCHANGED <<fxVars, hVars, flVars, iaVars, rqVars, twVars>>

\* lines 673-694
BgReconcile ==
    /\ bgPc = "party"
    /\ bgPc' = "budget"
    /\ bgOut' = [bgOut EXCEPT !.budget =
                    Budget(parseBudgetBR(bgIn.orcamento),
                           parseBudgetBR(bgIn.orcamento_por_pessoa), bgOut.pessoas)]
    /\ UNCHANGED bgIn
    /\ UNCHANGED <<fxVars, hVars, flVars, iaVars, rqVars, twVars>>

\* lines 750-757, 775-778, 998-999, 1120-1121
BgDisplay ==
    /\ bgPc = "budget"
    /\ bgPc' = "shown"
    /\ LET fx == HandlerFxObject(bgIn.q, bgIn.cur)
       IN bgOut' = [bgOut EXCEPT !.fx = fx,
                                 !.conv = ConvHeaderKind(fx),
                                 !.summary = BudgetRows(bgOut.budget, bgIn.cur, fx),
                                 !.email = BudgetRows(bgOut.budget, bgIn.cur, fx)]
    /\ UNCHANGED bgIn
    /\ UNCHANGED <<fxVars, hVars, flVars, iaVars, rqVars, twVars>>

InitBudget ==
    /\ TwoIdle
    /\ FxIdle
    /\ HandlerIdle
    /\ FlIdle
    /\ IataIdle
    /\ RequestIdle
    /\ hPc = "none"
    /\ hCls = <<>>
    /\ bgPc = "start"
    /\ \E t \in TotalInputs, p \in PerPersonInputs, n \in PessoasInputs, f \in QuoteInputs :
          bgIn = [orcamento |-> t, orcamento_por_pessoa |-> p, pessoas |-> n,
                  q |-> f.q, cur |-> f.cur]
    /\ bgOut = [pessoas |-> Null, budget |-> NoBudget, fx |-> <<>>, conv |-> "none",
                summary |-> <<>>, email |-> <<>>]

NextBudget ==
    \/ BgParty
    \/ BgReconcile
    \/ BgDisplay

SpecBudget == InitBudget /\ [][NextBudget]_vars

(***************************************************************************)
(* Two invocations of the handler in one process (lines 612-1174)          *)
(*                                                                         *)
(* Every name the handler assigns is a const/let of the function body, so  *)
(* each invocation has its own copy (loc).  The module level holds the     *)
(* read-only tables, DEBUG, and the imported sgMail client, whose API key  *)
(* line 633 sets on every invocation and sgMail.send (line 1155) uses.     *)
(***************************************************************************)
Invocations == 1..2

\* the requests: a wrong method, a request with and one without a recipient
TwoRequests ==
    { [method |-> "GET", emailDestino |-> FALSE],
      [method |-> "POST", emailDestino |-> FALSE],
      [method |-> "POST", emailDestino |-> TRUE] }

\* what the outside answers to one invocation; every answer carries the tag
\* of the invocation it was given to (reqId is Date.now() and Math.random())
TwoAnswers(tag) ==
    { [reqId |-> tag, cls |-> "ok", fx |-> "rate", gen |-> "ok", flights |-> "items", mail |-> "accept"],
      [reqId |-> tag, cls |-> "ok", fx |-> "unavailable", gen |-> "ok", flights |-> "error", mail |-> "reject"],
      [reqId |-> tag, cls |-> "ok", fx |-> "rate", gen |-> "fail", flights |-> "items", mail |-> "accept"],
      [reqId |-> tag, cls |-> "nonok", fx |-> "rate", gen |-> "ok", flights |-> "items", mail |-> "accept"],
      [reqId |-> tag, cls |-> "throw", fx |-> "rate", gen |-> "ok", flights |-> "items", mail |-> "accept"] }

Tag(i) == IF i = 1 THEN "r1" ELSE "r2"

NoLocals == [meta |-> <<>>, fx |-> <<>>, html |-> <<>>, flights |-> <<>>, email |-> "none"]

Response(status, reqId, loc) == [status |-> status, reqId |-> reqId, body |-> loc]

\* faulty variant: the key set depends on the invocation
KeySet_PerInvocation(i) == IF i = 1 THEN twEnv ELSE "other"

\* lines 630, 633: const SENDGRID_API_KEY = env('SENDGRID_API_KEY'); sgMail.setApiKey(SENDGRID_API_KEY)
KeySet(i) == twEnv

\* the mail service takes a send made with the account's key, unless it fails
MailAccepts(key, ans) == key = twEnv /\ ans.mail = "accept"

\* one invocation moves; the other one and the environment stay
Move(i, r) == twInv' = [twInv EXCEPT ![i] = r]

\* lines 613-633: request id, method check, credentials
TwStart(i) ==
    /\ twInv # <<>>
    /\ twInv[i].pc = "start"
    /\ IF twInv[i].in.method # "POST"
       THEN /\ Move(i, [twInv[i] EXCEPT !.pc = "done",
                          !.sent = Append(@, Response(405, twInv[i].ans.reqId, NoLocals))])
            /\ UNCHANGED twMod
       ELSE /\ Move(i, [twInv[i] EXCEPT !.pc = "classify"])
            /\ twMod' = IF twEnv # "" THEN [key |-> KeySet(i), by |-> i] ELSE twMod
    /\ UNCHANGED twEnv
    /\ UNCHANGED <<fxVars, hVars, flVars, iaVars, rqVars, bgVars>>

\* lines 713-745: await of the classifier
TwClassify(i) ==
    /\ twInv # <<>>
    /\ twInv[i].pc = "classify"
    /\ LET a == twInv[i].ans
       IN IF a.cls = "throw" THEN Move(i, [twInv[i] EXCEPT !.pc = "caught"])
          ELSE IF a.cls = "nonok"
          THEN Move(i, [twInv[i] EXCEPT !.pc = "done",
                          !.sent = Append(@, Response(401, a.reqId, NoLocals))])
          ELSE Move(i, [twInv[i] EXCEPT !.pc = "fx", !.loc.meta = <<a.reqId, "meta">>])
    /\ UNCHANGED <<twEnv, twMod>>
    /\ UNCHANGED <<fxVars, hVars, flVars, iaVars, rqVars, bgVars>>

\* lines 749-757: await of getFxBRLto
TwFx(i) ==
    /\ twInv # <<>>
    /\ twInv[i].pc = "fx"
    /\ Move(i, [twInv[i] EXCEPT !.pc = "generate", !.loc.fx = <<twInv[i].ans.reqId, twInv[i].ans.fx>>])
    /\ UNCHANGED <<twEnv, twMod>>
    /\ UNCHANGED <<fxVars, hVars, flVars, iaVars, rqVars, bgVars>>

\* line 972: await of generateHtmlWithSearch
TwGenerate(i) ==
    /\ twInv # <<>>
    /\ twInv[i].pc = "generate"
    /\ IF twInv[i].ans.gen = "fail"
       THEN Move(i, [twInv[i] EXCEPT !.pc = "caught"])
       ELSE Move(i, [twInv[i] EXCEPT !.pc = "flights", !.loc.html = <<twInv[i].ans.reqId, "html">>])
    /\ UNCHANGED <<twEnv, twMod>>
    /\ UNCHANGED <<fxVars, hVars, flVars, iaVars, rqVars, bgVars>>

\* lines 1026-1068: awaits of resolveIataTerm and searchFlightsAviasales
TwFlights(i) ==
    /\ twInv # <<>>
    /\ twInv[i].pc = "flights"
    /\ Move(i, [twInv[i] EXCEPT !.pc = "email",
                  !.loc.flights = <<twInv[i].ans.reqId, twInv[i].ans.flights>>])
    /\ UNCHANGED <<twEnv, twMod>>
    /\ UNCHANGED <<fxVars, hVars, flVars, iaVars, rqVars, bgVars>>

\* lines 1129-1165: await of sgMail.send, which uses the key the client holds
TwEmail(i) ==
    /\ twInv # <<>>
    /\ twInv[i].pc = "email"
    /\ IF twInv[i].in.emailDestino /\ twEnv # ""
       THEN Move(i, [twInv[i] EXCEPT !.pc = "respond",
                       !.read = twMod.by,
                       !.loc.email = IF MailAccepts(twMod.key, twInv[i].ans)
                                     THEN "enviado" ELSE "erro"])
       ELSE Move(i, [twInv[i] EXCEPT !.pc = "respond"])
    /\ UNCHANGED <<twEnv, twMod>>
    /\ UNCHANGED <<fxVars, hVars, flVars, iaVars, rqVars, bgVars>>

\* lines 1167-1169
TwRespond(i) ==
    /\ twInv # <<>>
    /\ twInv[i].pc = "respond"
    /\ Move(i, [twInv[i] EXCEPT !.pc = "done",
                  !.sent = Append(@, Response(200, twInv[i].ans.reqId, twInv[i].loc))])
    /\ UNCHANGED <<twEnv, twMod>>
    /\ UNCHANGED <<fxVars, hVars, flVars, iaVars, rqVars, bgVars>>

\* lines 1170-1173
TwCatch(i) ==
    /\ twInv # <<>>
    /\ twInv[i].pc = "caught"
    /\ Move(i, [twInv[i] EXCEPT !.pc = "done",
                  !.sent = Append(@, Response(500, twInv[i].ans.reqId, NoLocals))])
    /\ UNCHANGED <<twEnv, twMod>>
    /\ UNCHANGED <<fxVars, hVars, flVars, iaVars, rqVars, bgVars>>

InitTwo ==
    /\ BudgetIdle
    /\ FxIdle
    /\ HandlerIdle
    /\ FlIdle
    /\ IataIdle
    /\ RequestIdle
    /\ hPc = "none"
    /\ hCls = <<>>
    /\ twEnv \in {"", "SG.key"}
    /\ twMod = [key |-> "", by |-> 0]
    /\ \E r1, r2 \in TwoRequests, a1 \in TwoAnswers(Tag(1)), a2 \in TwoAnswers(Tag(2)) :
          twInv = [i \in Invocations |->
                     [pc |-> "start", in |-> IF i = 1 THEN r1 ELSE r2,
                      ans |-> IF i = 1 THEN a1 ELSE a2,
                      loc |-> NoLocals, sent |-> <<>>, read |-> 0]]

NextTwo ==
    \/ \E i \in Invocations : TwStart(i)
    \/ \E i \in Invocations : TwClassify(i)
    \/ \E i \in Invocations : TwFx(i)
    \/ \E i \in Invocations : TwGenerate(i)
    \/ \E i \in Invocations : TwFlights(i)
    \/ \E i \in Invocations : TwEmail(i)
    \/ \E i \in Invocations : TwRespond(i)
    \/ \E i \in Invocations : TwCatch(i)

SpecTwo == InitTwo /\ [][NextTwo]_vars

(***************************************************************************)
(* Claims about getFxBRLto                                                 *)
(***************************************************************************)
\* the spellings of the base currency code
BaseCodeAnyCase == { <<b, r, l>> : b \in {"B", "b"}, r \in {"R", "r"}, l \in {"L", "l"} }

FxFinished == fxPc \in {"returned", "threw"}

\* a response that contains a finite, positive rate for the target
HasGoodRate(o) == o.k = "json" /\ o.rate.t = "num" /\ o.rate.n > 0

\* C1: for a non-BRL target the providers are requested in the fixed order
\* exchangerate.host, frankfurter.app, open.er-api.com; the first response
\* that contains a finite, positive rate ends the search (no later provider is
\* requested) and its quote (rate, inverse = 1/rate, provider) is what is
\* returned; no provider is requested twice.
C1_FirstGoodRateIsReturned ==
    (fxCode # <<>> /\ fxCode \notin BaseCodeAnyCase) =>
        /\ \A i \in DOMAIN fxCalls : fxCalls[i] = Providers[i]
        /\ \A i \in DOMAIN fxResps :
              HasGoodRate(fxResps[i]) =>
                  /\ Len(fxCalls) = i
                  /\ FxFinished =>
                        /\ fxPc = "returned"
                        /\ fxRet.rate = fxResps[i].rate
                        /\ fxRet.inverse = Num(fxResps[i].rate.d, fxResps[i].rate.n)
                        /\ fxRet.provider = Providers[i]

\* C2: for a non-BRL target, when every provider failed (exception, timeout,
\* non-JSON body, missing / zero / negative / non-finite rate, or an exception
\* while the quote was built), getFxBRLto has requested all three, returns
\* rate 0, inverse 0, provider 'unavailable' and does not throw; the handler
\* goes on past the FX step with that quote instead of failing the request.
C2_Failed(o) == ~HasGoodRate(o) \/ o.date = "invalid"

C2_AllFailedYieldsUnavailable ==
    ( /\ fxCode # <<>> /\ fxCode \notin BaseCodeAnyCase
      /\ FxFinished
      /\ \A i \in DOMAIN fxResps : C2_Failed(fxResps[i]) )
    =>
      /\ fxPc = "returned"
      /\ Len(fxCalls) = 3
      /\ fxRet.rate = Zero /\ fxRet.inverse = Zero
      /\ fxRet.provider = "unavailable"
      /\ hPc \in {"awaitFx", "generate", "none"}
      /\ hPc = "generate" =>
            /\ hFx.provider = "unavailable"
            /\ hFx.brl_to_quote = Zero /\ hFx.quote_to_brl = Zero
            /\ hConv = "none"

C2_Witness ==
    /\ hPc = "generate"
    /\ Len(fxResps) = 3
    /\ fxResps[1].k = "abort"
    /\ fxResps[2].k = "nonjson"
    /\ fxResps[3].k = "json" /\ fxResps[3].rate = Num(-1, 5)
    /\ hFx.provider = "unavailable"

\* C3: called with the base currency in any letter case, getFxBRLto returns
\* rate 1, inverse 1, provider 'none' and requests no provider.
C3_BaseCurrencyShortCircuits ==
    fxCode \in BaseCodeAnyCase =>
        /\ fxCalls = <<>>
        /\ fxPc # "trying"
        /\ FxFinished =>
              /\ fxPc = "returned"
              /\ fxRet.rate = One /\ fxRet.inverse = One
              /\ fxRet.provider = "none"

C3_Witness ==
    /\ fxPc = "returned"
    /\ fxCode = <<"b", "R", "l">>
    /\ fxRet.provider = "none"
    /\ fxCalls = <<>>

(***************************************************************************)
(* Claims about searchFlightsAviasales                                     *)
(***************************************************************************)
FlFinished == flPc \in {"returned", "threw"}

IsRoundTripQuery(q) == q.retAt.k # "absent"

\* the trip dates of the call, told apart without the code's arithmetic
DepartDec10   == flArgs.depart = Date(2025, 12, 10)
SpanOver30    == DepartDec10 /\ flArgs.ret \in {Date(2026, 1, 10), Date(2026, 1, 24)}
SpanWithin30  == DepartDec10 /\ flArgs.ret \in {Date(2025, 12, 5), Date(2026, 1, 9)}
ReturnAbsent  == flArgs.ret.k = "absent"

OutQuery  == Query(flArgs.origin, flArgs.destination, flArgs.depart, AbsentDate)
BackQuery == Query(flArgs.destination, flArgs.origin, flArgs.ret, AbsentDate)
BothQuery == Query(flArgs.origin, flArgs.destination, flArgs.depart, flArgs.ret)

\* C4: with a credential, the dates alone choose the mode. Return date absent
\* or span over 30 days: no round-trip query is ever sent, the queries are the
\* outbound one-way query and then, if there is a return date, the return
\* one-way query, and the result holds items_outbound / items_return /
\* items_combined and no round-trip list. Both dates present and span of 30
\* days or less: the first query is the round-trip query, and when the
\* provider accepts it, it is the only query and the result is one items list.
C4_ModeFollowsDates ==
    flToken =>
      /\ (ReturnAbsent \/ SpanOver30) =>
            /\ \A i \in DOMAIN flQueries : ~IsRoundTripQuery(flQueries[i])
            /\ Len(flQueries) <= (IF ReturnAbsent THEN 1 ELSE 2)
            /\ Len(flQueries) >= 1 => flQueries[1] = OutQuery
            /\ Len(flQueries) >= 2 => flQueries[2] = BackQuery
            /\ flPc = "returned" =>
                  /\ flResult.kind = "oneway"
                  /\ flResult.items = <<>>
                  /\ Len(flQueries) = (IF ReturnAbsent THEN 1 ELSE 2)
      /\ SpanWithin30 =>
            /\ flPc \notin {"oneWayOut", "oneWayBack"} \/ flDepth > 0
            /\ Len(flQueries) >= 1 => flQueries[1] = BothQuery
            /\ (Len(flResps) >= 1 /\ flResps[1].k = "http" /\ flResps[1].ok) =>
                  /\ flPc = "returned"
                  /\ Len(flQueries) = 1
                  /\ flResult.kind = "roundtrip"
                  /\ flResult.items_combined = <<>>
                  /\ flResult.items_outbound = <<>>
                  /\ flResult.items_return = <<>>

C4_Witness ==
    /\ flPc = "returned"
    /\ flArgs.depart = Date(2025, 12, 10) /\ flArgs.ret = Date(2026, 1, 24)
    /\ Len(flQueries) = 2
    /\ flResult.kind = "oneway"
    /\ Len(flResult.items_combined) > 1

\* the provider's span complaint is somewhere in the error payload
MentionsSpan(r) == SpanText \in {r.raw, r.error, r.message}

\* C5: a round-trip query answered with a non-success status because the span
\* exceeds the provider's maximum, wherever in the payload the message is (text
\* body, JSON error field, JSON message field), never yields an error object:
\* the search falls back to one-way queries and returns the three lists.
C5_SpanRejectionFallsBack ==
    \A i \in DOMAIN flResps :
        ( /\ IsRoundTripQuery(flQueries[i])
          /\ flResps[i].k = "http" /\ ~flResps[i].ok
          /\ MentionsSpan(flResps[i]) )
        => /\ flPc = "returned" => flResult.kind = "oneway"
           /\ flPc # "returned" => (FlFinished \/ flDepth = 1)

FailedOtherwise(r) == r.k = "http" /\ ~r.ok /\ ~MentionsSpan(r)

\* C7 as stated: every query, round-trip or one-way leg, that ends in a
\* non-success status unrelated to the date span makes the result a structured
\* error object with the provider's status and payload, and is not sent again.
C7_EveryFailureIsAnErrorObject ==
    \A i \in DOMAIN flResps :
        FailedOtherwise(flResps[i]) =>
            /\ \A j \in DOMAIN flQueries : j # i => flQueries[j] # flQueries[i]
            /\ flPc = "returned" =>
                  /\ flResult.kind = "error"
                  /\ flResult.status = flResps[i].status
                  /\ flResult.raw = flResps[i]

\* C7 as amended: this holds for the round-trip query; a one-way leg that fails
\* that way gives no error object: the result is the three lists, with the
\* list of that leg (and so items_combined) empty. No failed query is re-sent.
C7_RoundTripFailureIsAnErrorObject ==
    \A i \in DOMAIN flResps :
        FailedOtherwise(flResps[i]) =>
            /\ \A j \in DOMAIN flQueries : j # i => flQueries[j] # flQueries[i]
            /\ flPc = "returned" =>
                  IF IsRoundTripQuery(flQueries[i])
                  THEN /\ flResult.kind = "error"
                       /\ flResult.status = flResps[i].status
                       /\ flResult.raw = flResps[i]
                       /\ flResps[i].message # <<>> => flResult.error = flResps[i].message
                       /\ Len(flQueries) = 1
                  ELSE /\ flResult.kind = "oneway"
                       /\ flResult.items_combined = <<>>
                       /\ flQueries[i] = OutQuery => flResult.items_outbound = <<>>
                       /\ flQueries[i] = BackQuery => flResult.items_return = <<>>

C7_Witness ==
    /\ flPc = "returned"
    /\ Len(flQueries) = 2
    /\ flResps[1].ok /\ flResps[1].list # <<>>
    /\ FailedOtherwise(flResps[2])
    /\ flResult.kind = "oneway"
    /\ flResult.items_outbound # <<>>
    /\ flResult.items_return = <<>>

OneWayReturned == flPc = "returned" /\ flResult.kind = "oneway"

\* C8: items_combined is in non-decreasing order of price_number, has at most
\* resultLimit entries, and they are the cheapest of the combinations built:
\* nothing built and left out is cheaper than an entry kept.
C8_CombinedSortedAndCut ==
    OneWayReturned =>
        LET kept == flResult.items_combined IN
        /\ \A i, j \in DOMAIN kept :
              i < j => kept[i].price_number.n <= kept[j].price_number.n
        /\ Len(kept) <= flArgs.limit
        /\ Len(kept) = Min(flArgs.limit, Len(flCombined))
        /\ \A i \in DOMAIN kept : \E k \in DOMAIN flCombined : flCombined[k] = kept[i]
        /\ \A k \in DOMAIN flCombined :
              (\A i \in DOMAIN kept : kept[i] # flCombined[k]) =>
                  \A i \in DOMAIN kept :
                      kept[i].price_number.n <= flCombined[k].price_number.n

C8_Witness ==
    /\ OneWayReturned
    /\ flArgs.limit = 6
    /\ Len(flCombined) = 9
    /\ Len(flResult.items_combined) = 6
    /\ flResult.items_outbound[1].airline = "G3"
    /\ flResult.items_combined[1].price_number.n < flResult.items_combined[6].price_number.n

\* the offers the provider listed for the one-way query leaving `from`
ProviderList(from) ==
    LET idx == {i \in DOMAIN flQueries :
                   /\ ~IsRoundTripQuery(flQueries[i]) /\ flQueries[i].o = from
                   /\ flResps[i].k = "http" /\ flResps[i].ok /\ flResps[i].isArray}
    IN IF idx = {} THEN <<>> ELSE flResps[CHOOSE i \in idx : TRUE].list

\* the pairs (outbound airline, return airline) of the combinations built
PairsBuilt == { <<flCombined[k].outbound.airline, flCombined[k].back.airline>> :
                   k \in DOMAIN flCombined }

\* the 3 lowest-priced offers of a list; an offer without price counts as `missing`
RawPrice(x, missing) == IF x.price.t = "num" THEN x.price.n ELSE missing
Lowest3(l, missing) ==
    { l[i].airline : i \in
        { i \in DOMAIN l :
            Cardinality({ j \in DOMAIN l :
                            RawPrice(l[j], missing) < RawPrice(l[i], missing) }) < 3 } }

\* C9 as stated: the combinations are built from exactly the pairs of one of
\* the 3 lowest-priced outbound offers with one of the 3 lowest-priced return
\* offers, in whatever order the provider lists them (an offer without price
\* read as the cheapest or as the dearest).
C9_PairsOfThreeCheapest ==
    (OneWayReturned /\ flArgs.limit >= 3) =>
        \E missing \in {0, NullSortKey} :
            PairsBuilt = Lowest3(ProviderList(flArgs.origin), missing)
                         \X Lowest3(ProviderList(flArgs.destination), missing)

\* the first n offers of a list
FirstListed(l, n) == { l[i].airline : i \in 1..Min(n, Len(l)) }

\* C9 as amended: the pairs are those of one of the first 3 outbound offers with
\* one of the first 3 return offers in the order the provider lists them (of
\* the resultLimit offers kept per leg), each pair once.
C9_PairsOfFirstThreeListed ==
    OneWayReturned =>
        LET n == Min(3, flArgs.limit) IN
        /\ PairsBuilt = FirstListed(ProviderList(flArgs.origin), n)
                        \X FirstListed(ProviderList(flArgs.destination), n)
        /\ Len(flCombined) = Cardinality(PairsBuilt)

C9_Witness ==
    /\ OneWayReturned
    /\ flArgs.limit = 6
    /\ Len(ProviderList(flArgs.origin)) = 4
    /\ ProviderList(flArgs.origin)[1].airline = "G3"
    /\ ProviderList(flArgs.origin)[4].airline = "LA"
    /\ Len(ProviderList(flArgs.destination)) = 4
    /\ Len(flCombined) = 9

\* a price or stop count the provider left out counts as 0
Count(v) == IF v.t = "num" THEN v.n ELSE 0

\* C10: every entry of items_combined refers to an element of items_outbound
\* and an element of items_return of the same result; its price_number is the
\* sum of their price_number and its stops the sum of their stops, an absent
\* price or stop count adding nothing.
C10_CombinedIsSumOfItsLegs ==
    OneWayReturned =>
        \A k \in DOMAIN flResult.items_combined :
            LET c == flResult.items_combined[k] IN
            /\ \E i \in DOMAIN flResult.items_outbound : flResult.items_outbound[i] = c.outbound
            /\ \E j \in DOMAIN flResult.items_return : flResult.items_return[j] = c.back
            /\ c.price_number.t = "num"
            /\ c.price_number.n = Count(c.outbound.price_number) + Count(c.back.price_number)
            /\ c.stops.t = "num"
            /\ c.stops.n = Count(c.outbound.stops) + Count(c.back.stops)

C10_Witness ==
    /\ OneWayReturned
    /\ \E k \in DOMAIN flResult.items_combined :
          /\ flResult.items_combined[k].outbound.airline = "AZ"
          /\ flResult.items_combined[k].outbound.price_number = Null
          /\ flResult.items_combined[k].back.airline = "AD"
          /\ flResult.items_combined[k].price_number.n = 200
          /\ flResult.items_combined[k].stops.n = 2

(***************************************************************************)
(* Claims about resolveIataTerm                                            *)
(***************************************************************************)
IaFinished == iaPc \in {"returned", "threw"}

StepOrder == <<"direct", "alias", "autocomplete">>

\* C12: resolveIataTerm runs its steps in the order direct extraction, alias
\* table, autocomplete and stops at the first step that yields a code: no step
\* runs after one that found a code, the autocomplete service is called only
\* after both earlier steps found nothing, and at most once per call.
C12_StepsInOrderFirstMatchWins ==
    /\ Len(iaSteps) <= Len(StepOrder)
    /\ \A i \in DOMAIN iaSteps : iaSteps[i].step = StepOrder[i]
    /\ \A i \in DOMAIN iaSteps :
          iaSteps[i].found # NoCode =>
              i = Len(iaSteps) /\ iaPc = "returned" /\ iaRet # NoCode
    /\ Len(iaCalls) <= 1
    /\ iaCalls # <<>> =>
          /\ Len(iaSteps) = 3
          /\ looksLikeIata(iaTerm) = NoCode
          /\ AliasCode(iaTerm) = NoCode

\* a call that went through all three steps and got its code from the last
C12_Witness ==
    /\ iaPc = "returned"
    /\ Len(iaCalls) = 1
    /\ Len(iaSteps) = 3
    /\ iaRet # NoCode

\* the term is the place name, in some letter case, with or without its accents
SpellingOf(term, name) == Unaccent(LowerCase(term)) = Unaccent(name)

\* C13: for every place name that is a key of the alias table (also names of
\* several words and names holding a three-letter word), written in any letter
\* case and with or without accents, resolveIataTerm returns the code the table
\* gives for it and does not call the autocomplete service.
C13_AliasNamesResolveToTheirCode ==
    IaFinished =>
        \A p \in IataHintPairs :
            SpellingOf(iaTerm, p[1]) => (iaRet = p[2] /\ iaCalls = <<>>)

\* C14: resolveIataTerm never returns a code that the airport-to-city table
\* maps to a different (aggregator) code, whichever step produced it.
C14_ReturnedCodeIsCollapsed ==
    (iaPc = "returned" /\ iaRet # NoCode) =>
        AIRPORT_TO_CITY(iaRet) \in {NoCode, iaRet}

\* what may stand before an embedded code
CodePrefixes ==
    {"", "Aeroporto ", "São Paulo, ", "Rio de Janeiro, ", "Foz do Iguaçu, ", "New York, "}

\* C15: for every term whose text embeds a three-letter airport code that is a
\* key of the airport-to-city table (as in "São Paulo, GRU"), resolveIataTerm
\* returns the city code the table maps it to and calls no external service.
C15_EmbeddedCodeCollapsesToCity ==
    IaFinished =>
        \A p \in AirportToCityPairs, pre \in CodePrefixes :
            iaTerm = pre \o p[1] => (iaRet = p[2] /\ iaCalls = <<>>)

(***************************************************************************)
(* Claims about the handler (SpecHandler)                                  *)
(***************************************************************************)
\* C11: when no flight-API credential is configured, searchFlightsAviasales
\* sends no provider query, does not throw and returns an object with an
\* explanatory error; the handler answers 200 with that object as the flight
\* section.
C11_NoCredentialNoQueryErrorObject ==
    ~flToken =>
        /\ flQueries = <<>>
        /\ flPc # "threw"
        /\ flPc = "returned" =>
              /\ flResult.kind = "error"
              /\ flResult.error = <<"TRAVELPAYOUTS_TOKEN", "não", "configurado">>
              /\ hPc \in {"awaitFlights", "email", "stalled", "responded"}
              /\ hSent # <<>> =>
                    /\ hSent[1].status = 200
                    /\ hSent[1].flights = flResult

C11_Witness ==
    /\ ~flToken
    /\ flPc = "returned"
    /\ hSent # <<>>
    /\ hSent[1].flights.kind = "error"

\* the autocomplete request of the resolveIataTerm call in progress (or the last
\* one made) failed: network error, the 12 s timer, a body that is not JSON, an
\* empty list
AutocompleteFailed ==
    \/ iaResp.k \in {"reject", "abort", "nonjson"}
    \/ iaResp.k = "array" /\ iaResp.data = <<>>

AutocompleteCalled ==
    \E i \in DOMAIN hCalls : hCalls[i].svc = "autocomplete"

\* C16: when the autocomplete call of resolveIataTerm fails (network error,
\* timeout, non-JSON or empty answer), resolveIataTerm returns null and never
\* throws, and the failure does not become a request-level error: the handler
\* goes on and every response of a request that called autocomplete is a 200.
C16_AutocompleteFailureIsNull ==
    /\ iaPc # "threw"
    /\ (iaPc = "returned" /\ AutocompleteFailed) => iaRet = NoCode
    /\ (AutocompleteCalled \/ AutocompleteFailed) =>
          /\ hPc # "caught500"
          /\ hFlights = FlightsException => flPc = "threw"
          /\ hSent # <<>> => hSent[1].status = 200

C16_Witness ==
    /\ iaPc = "returned"
    /\ iaResp.k = "abort"
    /\ iaRet = NoCode
    /\ AutocompleteCalled
    /\ hSent # <<>>
    /\ hSent[1].status = 200

\* the flights stage of the request (lines 1026-1068) is over
FlightStageOver ==
    /\ hGen.done
    /\ \/ hPc \in {"email", "responded"}
       \/ hPc = "stalled" /\ hCalls[Len(hCalls)].svc = "email"

\* flights were asked for and the origin or the destination did not resolve
Unresolved ==
    /\ FlightsWanted(hIn)
    /\ FlightStageOver
    /\ hOrigin = NoCode \/ hDest = NoCode

\* C17 as stated: when the origin or the destination cannot be resolved to a
\* code, the handler sends no query to the flight-pricing provider, omits the
\* flight section from the response, and still answers 200 with the itinerary.
C17_UnresolvedOmitsFlightSection ==
    Unresolved =>
        /\ flQueries = <<>>
        /\ hSent # <<>> =>
              /\ hSent[1].status = 200
              /\ hSent[1].kind = "itinerary"
              /\ hSent[1].flights = NoResult

\* C17 amended: when the origin or the destination cannot be resolved to a
\* code, the handler does not call the flight search and sends no query to the
\* provider, answers 200 with the itinerary, and the flight section of the
\* response is the error object of line 1059.
C17_UnresolvedGivesErrorSection ==
    Unresolved =>
        /\ flQueries = <<>>
        /\ flPc = "idle"
        /\ hFlights.kind = "error"
        /\ hFlights.error = <<"Não", "foi", "possível", "resolver", "IATA",
                              "de", "origem", "ou", "destino.">>
        /\ hSent # <<>> =>
              /\ hSent[1].status = 200
              /\ hSent[1].kind = "itinerary"
              /\ hSent[1].flights = hFlights

C17_Witness ==
    /\ Unresolved
    /\ hOrigin # NoCode
    /\ hDest = NoCode
    /\ hSent # <<>>
    /\ hSent[1].status = 200
    /\ hSent[1].flights.kind = "error"

\* the request passed validation and the classifier gave destination metadata
Classified == hMeta # NoMeta

\* every strategy of the narrative generator has been tried and none gave a result
GenerationFailed == ~hGen.done /\ GenTried = Len(GenStrategies)

C19_EveryRequestIsAnswered == <>(hSent # <<>>)

\* a call of one of the three helpers is in progress
FxActive == fxPc \in {"entered", "trying"}
IaActive == iaPc \in {"entered", "alias", "autocomplete"}
FlActive == flPc \in {"entered", "oneWayOut", "oneWayBack", "roundTrip"}

\* the place of a logged call in the order of the stages
StageRank(c) ==
    IF c.svc = "classify" THEN 1
    ELSE IF c.svc = "autocomplete" /\ c.note = "origin" THEN 3
    ELSE IF c.svc = "autocomplete" THEN 4
    ELSE IF c.svc = "email" THEN 5
    ELSE 2

\* C20: within one request the external calls never overlap and happen in the
\* order classification, FX resolution, IATA resolution of the origin, IATA
\* resolution of the destination, flight search: no FX call is made before
\* classification has succeeded, and no flight query is sent before both codes
\* are resolved.
C20_CallsInOrderNeverOverlap ==
    /\ FxActive => hPc = "awaitFx" /\ ~IaActive /\ ~FlActive
    /\ IaActive => hPc \in {"awaitOrigin", "awaitDest"} /\ ~FlActive
    /\ FlActive => hPc = "awaitFlights"
    /\ (fxPc # "idle" \/ fxCalls # <<>>) => Classified
    /\ iaPc # "idle" => fxPc = "returned" /\ hGen.done
    /\ hPc = "awaitOrigin" => hDest = NoCode /\ hTermIdx = 0 /\ flPc = "idle"
    /\ hPc = "awaitDest" => hTermIdx >= 1 /\ flPc = "idle"
    /\ (flPc # "idle" \/ flQueries # <<>>) =>
          /\ fxPc = "returned"
          /\ iaPc = "returned"
          /\ hOrigin # NoCode
          /\ hDest # NoCode
          /\ flArgs.origin = hOrigin
          /\ flArgs.destination = hDest
    /\ \A i, j \in DOMAIN hCalls : i < j => StageRank(hCalls[i]) <= StageRank(hCalls[j])

C20_Witness ==
    /\ fxCalls # <<>>
    /\ \E i \in DOMAIN hCalls : StageRank(hCalls[i]) = 3
    /\ \E i \in DOMAIN hCalls : StageRank(hCalls[i]) = 4
    /\ Len(flQueries) = 3
    /\ hSent # <<>>

\* the request supplies an origin, a departure date and a return date
SuppliesTrip ==
    hIn.origem # "" /\ Present(hIn.data_ida) /\ Present(hIn.data_volta)

\* the handler has sent the itinerary
ItinerarySent == hSent # <<>> /\ hSent[1].status = 200

\* C21: the response payload contains a flight section exactly when the request
\* supplies an origin, a departure date and a return date; the section is then
\* an object holding an error or item lists, whatever IATA resolution and the
\* flight search ended in (exceptions and timeouts included); when the request
\* does not supply them, no autocomplete and no flight query was sent.
C21_FlightSectionIffTripSupplied ==
    /\ ItinerarySent =>
          /\ hSent[1].flights # NoResult <=> SuppliesTrip
          /\ SuppliesTrip =>
                \/ hSent[1].flights.kind = "error" /\ hSent[1].flights.error # <<>>
                \/ hSent[1].flights.kind \in {"roundtrip", "oneway"}
    /\ ~SuppliesTrip =>
          /\ iaPc = "idle"
          /\ iaCalls = <<>>
          /\ ~AutocompleteCalled
          /\ flPc = "idle"
          /\ flQueries = <<>>

\* a request with a trip whose flight search threw, answered with the error object
C21_Witness ==
    /\ ItinerarySent
    /\ SuppliesTrip
    /\ flPc = "threw"
    /\ hSent[1].flights.kind = "error"

\* a request without a return date, answered without a flight section
C21_WitnessNoTrip ==
    /\ ItinerarySent
    /\ hIn.origem # ""
    /\ ~SuppliesTrip
    /\ hSent[1].flights = NoResult

\* sgMail.send was called
EmailCalled == \E i \in DOMAIN hCalls : hCalls[i].svc = "email"

\* how the send ended ("none" when it was not called)
EmailOutcome ==
    IF EmailCalled THEN hCalls[Len(hCalls)].note ELSE "none"

\* C22: email delivery is attempted only when a recipient, the mail credential
\* and the sender address are all present, and only after the itinerary
\* payload is assembled; whether the send succeeds or fails, the handler
\* answers 200 with the same itinerary and reports the outcome only in the
\* email field of the payload (enviado true or false).
C22_EmailOnlyWhenConfiguredOutcomeInField ==
    /\ EmailCalled =>
          /\ hIn.emailDestino /\ hIn.SENDGRID_API_KEY /\ hIn.MAIL_FROM
          /\ hGen.done
          /\ FlightStageOver
          /\ hCalls[Len(hCalls)].svc = "email"
          /\ Cardinality({ i \in DOMAIN hCalls : hCalls[i].svc = "email" }) = 1
    /\ ItinerarySent =>
          /\ hSent[1].kind = "itinerary"
          /\ hSent[1].flights = hFlights
          /\ hSent[1].email = ( IF EmailOutcome = "sent" THEN "enviado"
                                ELSE IF EmailOutcome = "rejected" THEN "erro"
                                ELSE "none" )
          /\ EmailCalled <=> (hIn.emailDestino /\ hIn.SENDGRID_API_KEY /\ hIn.MAIL_FROM)

\* the send was rejected and the itinerary went out all the same
C22_Witness ==
    /\ EmailOutcome = "rejected"
    /\ ItinerarySent
    /\ hSent[1].email = "erro"
    /\ hSent[1].flights.kind = "roundtrip"

\* a recipient without the mail credential: nothing is sent by mail
C22_WitnessSkipped ==
    /\ hIn.emailDestino
    /\ ~hIn.SENDGRID_API_KEY
    /\ ItinerarySent
    /\ ~EmailCalled
    /\ hSent[1].email = "none"

(***************************************************************************)
(* Claims about concurrent invocations (SpecTwo)                           *)
(***************************************************************************)
\* the response an invocation sends when it runs alone, from its request, the
\* environment and the answers it is given
AloneResponse(in, envKey, a) ==
    IF in.method # "POST" THEN Response(405, a.reqId, NoLocals)
    ELSE IF a.cls = "throw" THEN Response(500, a.reqId, NoLocals)
    ELSE IF a.cls = "nonok" THEN Response(401, a.reqId, NoLocals)
    ELSE IF a.gen = "fail" THEN Response(500, a.reqId, NoLocals)
    ELSE Response(200, a.reqId,
                  [meta |-> <<a.reqId, "meta">>,
                   fx |-> <<a.reqId, a.fx>>,
                   html |-> <<a.reqId, "html">>,
                   flights |-> <<a.reqId, a.flights>>,
                   email |-> IF in.emailDestino /\ envKey # ""
                             THEN (IF a.mail = "accept" THEN "enviado" ELSE "erro")
                             ELSE "none"])

\* each finished invocation sent the response it would send alone
SameAsAlone ==
    \A i \in Invocations :
        twInv[i].pc = "done" =>
            twInv[i].sent = << AloneResponse(twInv[i].in, twEnv, twInv[i].ans) >>

\* C23 as stated: two invocations whose steps interleave at their await points
\* each produce the response they would produce alone, and no module-level
\* state is written by one request and read by another.
C23_NoStateSharedBetweenRequests ==
    /\ SameAsAlone
    /\ \A i \in Invocations : twInv[i].read \in {0, i}

\* C23 amended: each invocation produces the response it would produce alone;
\* the one module-level value an invocation writes and another may read is the
\* API key of the sgMail client, and every invocation sets it to the same
\* value, that of the process environment.
C23_SharedKeyIsTheSameForAll ==
    /\ SameAsAlone
    /\ twMod.key \in {"", twEnv}
    /\ \A i \in Invocations :
          /\ twInv[i].read # 0 => twMod.key = twEnv /\ twEnv # ""
          /\ twInv[i].pc \notin {"start", "done"} /\ twEnv # "" => twMod.key = twEnv

\* invocation 1 sent its mail with the key last set by invocation 2; both answered
C23_Witness ==
    /\ twInv[1].read = 2
    /\ twInv[1].pc = "done"
    /\ twInv[2].pc = "done"
    /\ twInv[1].sent[1].status = 200
    /\ twInv[1].sent[1].body.email = "enviado"
    /\ twInv[2].sent[1].status = 200

(***************************************************************************)
(* Claims about party size, budgets and money rows (SpecBudget)            *)
(***************************************************************************)
BudgetDone == bgPc \in {"budget", "shown"}

\* a is within 2% of b, relative to the larger of the two
Within2Percent(a, b) ==
    /\ a.t = "num"
    /\ b.t = "num"
    /\ LET x == a.n * b.d
           y == b.n * a.d
           m == IF Abs(x) >= Abs(y) THEN Abs(x) ELSE Abs(y)
       IN 50 * Abs(x - y) <= m

SuppliedTotal == parseBudgetBR(bgIn.orcamento)
SuppliedPerPerson == parseBudgetBR(bgIn.orcamento_por_pessoa)
BothSupplied == Truthy(SuppliedTotal) /\ Truthy(SuppliedPerPerson)

\* perPerson x max(1, partySize)
FromPerPerson == Times(SuppliedPerPerson, MathMax1(bgOut.pessoas))

TotalIsTenfold == Within2Percent(SuppliedTotal, Times(FromPerPerson, Ten))
PerPersonIsTenfold == Within2Percent(FromPerPerson, Times(SuppliedTotal, Ten))

\* C24: with both budgets supplied and n = max(1, partySize): a total within 2%
\* of 10 x (perPerson x n) is replaced by perPerson x n; otherwise, a
\* perPerson x n within 2% of 10 x total has perPerson replaced by total / n;
\* otherwise both stay as supplied; (110000, 1100, 10) gives 11000 and 1100.
C24_TenfoldBudgetIsCorrected ==
    BudgetDone /\ BothSupplied =>
        /\ TotalIsTenfold =>
              /\ bgOut.budget.orcamento = FromPerPerson
              /\ bgOut.budget.orcamentoPorPessoa = SuppliedPerPerson
        /\ ~TotalIsTenfold /\ PerPersonIsTenfold =>
              /\ bgOut.budget.orcamento = SuppliedTotal
              /\ bgOut.budget.orcamentoPorPessoa = Over(SuppliedTotal, MathMax1(bgOut.pessoas))
        /\ ~TotalIsTenfold /\ ~PerPersonIsTenfold =>
              /\ bgOut.budget.orcamento = SuppliedTotal
              /\ bgOut.budget.orcamentoPorPessoa = SuppliedPerPerson
        /\ bgOut.budget.orcTotal = bgOut.budget.orcamento
        /\ (bgIn.orcamento = Num(110000, 1) /\ bgIn.orcamento_por_pessoa = Num(1100, 1)
              /\ bgIn.pessoas = Ten) =>
              /\ bgOut.budget.orcTotal = Num(11000, 1)
              /\ bgOut.budget.orcPerPerson = Num(1100, 1)

\* the example of the claim has been reconciled
C24_Witness ==
    /\ BudgetDone
    /\ bgIn.orcamento = Num(110000, 1)
    /\ bgIn.orcamento_por_pessoa = Num(1100, 1)
    /\ bgIn.pessoas = Ten
    /\ bgOut.budget.branch = "fixTotal"
    /\ bgOut.budget.orcTotal = Num(11000, 1)

\* a per-person budget ten times too large has been replaced
C24_WitnessPerPerson ==
    /\ BudgetDone
    /\ bgOut.budget.branch = "fixPP"
    /\ bgOut.budget.orcamentoPorPessoa # SuppliedPerPerson

\* a total just outside the tolerance has been kept
C24_WitnessOutside ==
    /\ BudgetDone
    /\ bgIn.orcamento = Num(112300, 1)
    /\ bgIn.orcamento_por_pessoa = Num(1100, 1)
    /\ bgIn.pessoas = Ten
    /\ bgOut.budget.orcTotal = Num(112300, 1)

\* C25: for every budget input and every party-size input the party size used
\* is at least 1; when only one of total / per-person is supplied the other is
\* derived by multiplying or dividing by that party size; and whenever both
\* results are non-null, total = perPerson x partySize.
C25_PartySizeAtLeastOneBudgetsConsistent ==
    BudgetDone =>
        /\ bgOut.pessoas.t = "num"
        /\ LessEq(One, bgOut.pessoas)
        /\ Truthy(SuppliedTotal) /\ ~Truthy(SuppliedPerPerson) =>
              bgOut.budget.orcPerPerson = Over(SuppliedTotal, bgOut.pessoas)
        /\ ~Truthy(SuppliedTotal) /\ Truthy(SuppliedPerPerson) =>
              bgOut.budget.orcTotal = Times(SuppliedPerPerson, bgOut.pessoas)
        /\ bgOut.budget.orcTotal # Null /\ bgOut.budget.orcPerPerson # Null =>
              bgOut.budget.orcTotal = Times(bgOut.budget.orcPerPerson, bgOut.pessoas)

\* the same with the non-numeric party sizes left out
C25_HoldsForNumericPartySize ==
    BudgetDone /\ bgIn.pessoas.t # "string" =>
        /\ bgOut.pessoas.t = "num"
        /\ LessEq(One, bgOut.pessoas)
        /\ Truthy(SuppliedTotal) /\ ~Truthy(SuppliedPerPerson) =>
              bgOut.budget.orcPerPerson = Over(SuppliedTotal, bgOut.pessoas)
        /\ ~Truthy(SuppliedTotal) /\ Truthy(SuppliedPerPerson) =>
              bgOut.budget.orcTotal = Times(SuppliedPerPerson, bgOut.pessoas)
        /\ bgOut.budget.orcTotal # Null /\ bgOut.budget.orcPerPerson # Null =>
              bgOut.budget.orcTotal = Times(bgOut.budget.orcPerPerson, bgOut.pessoas)

RateIsZero == bgOut.fx # <<>> /\ bgOut.fx.brl_to_quote = Zero

BrlOnly(rows) == \A i \in 1..Len(rows) : rows[i].value.brl.t = "num" /\ rows[i].value.local = Null

\* C26: when the quote of the request has rate 0 (provider 'unavailable'),
\* the budget rows of the summary and of the email table show the BRL amount
\* only, the conversion header is the one without conversion, no converted
\* amount is produced, and no division has the rate as divisor.
C26_ZeroRateShowsBrlOnly ==
    bgPc = "shown" /\ RateIsZero =>
        /\ bgOut.fx.provider = "unavailable"
        /\ bgOut.fx.quote_to_brl = Zero
        /\ bgOut.conv = "none"
        /\ BrlOnly(bgOut.summary)
        /\ BrlOnly(bgOut.email)
        /\ \A v \in bgOut.budget.divs : v # bgOut.fx.brl_to_quote

\* both budget rows were shown for a request whose quote is unavailable
C26_Witness ==
    /\ bgPc = "shown"
    /\ RateIsZero
    /\ bgIn.cur = USD
    /\ Len(bgOut.summary) = 2
    /\ Len(bgOut.email) = 2
    /\ bgOut.budget.divs # {}

\* with a real quote the rows do carry a converted amount
C26_WitnessConverted ==
    /\ bgPc = "shown"
    /\ bgOut.conv = "conversion"
    /\ Len(bgOut.summary) = 2
    /\ bgOut.summary[1].value.local = Times(bgOut.budget.orcTotal, Num(9, 50))

(***************************************************************************)
(* Claims about normalizeKey (SpecKey)                                     *)
(***************************************************************************)
Idempotent == Len(iaSteps) >= 2 => iaSteps[2].key = iaSteps[1].key

\* the respelling differs from the text in one of the given ways and has its key
SameKeyFor(hows) ==
    Len(iaSteps) = 3 /\ iaSteps[3].how \in hows => iaSteps[3].key = iaSteps[1].key

TheExample ==
    /\ iaTerm = "São Paulo" /\ Len(iaSteps) >= 1 => iaSteps[1].key = "sao paulo"
    /\ iaTerm = "sao  paulo" /\ Len(iaSteps) >= 1 => iaSteps[1].key = "sao paulo"

\* C27 as stated: normalizeKey(normalizeKey(x)) = normalizeKey(x), and two
\* texts differing only in case, diacritics, punctuation or spacing get the
\* same key.
C27_KeyIgnoresCaseAccentsPunctuationSpacing ==
    /\ Idempotent
    /\ TheExample
    /\ SameKeyFor({"case", "diacritics", "spacing", "separator", "punctuation"})

\* C27 amended: normalizeKey is idempotent; texts differing only in case, in
\* diacritics, in the amount of whitespace, or in which punctuation mark or
\* space separates two words get the same key; a punctuation mark counts as a
\* space, so taking one out of the middle of a word changes the key.
C27_KeyIgnoresCaseAccentsSeparators ==
    /\ Idempotent
    /\ TheExample
    /\ SameKeyFor({"case", "diacritics", "spacing", "separator"})
    /\ (Len(iaSteps) = 3 /\ iaSteps[3].how = "punctuation")
          => iaSteps[3].key = normalizeKey(DropPunctuation(iaTerm))

\* an accented, capitalised, punctuated text was normalised twice and a
\* respelling with other spacing got the same key
C27_Witness ==
    /\ iaTerm = "Washington, D.C."
    /\ Len(iaSteps) = 3
    /\ iaSteps[1].key = "washington d c"
    /\ iaSteps[2].key = "washington d c"
    /\ iaSteps[3].how = "spacing"
    /\ iaSteps[3].key = "washington d c"

\* the respelling without the apostrophe has another key
C27_WitnessWordSplit ==
    /\ iaTerm = "Sant'Ana do Livramento"
    /\ Len(iaSteps) = 3
    /\ iaSteps[1].key = "sant ana do livramento"
    /\ iaSteps[3].how = "punctuation"
    /\ iaSteps[3].key = "santana do livramento"

(***************************************************************************)
(* Further claims about the handler (SpecHandler)                          *)
(***************************************************************************)
\* the invocation has come to rest: it returned, or it waits on an await that
\* never settles
HandlerAtRest == hPc \in {"responded", "stalled"}

\* C28: every handler invocation sends exactly one HTTP response, never zero
\* and never two, on every path: 405, 500 and 400 from the checks, the
\* classifier's non-success status, 200 on success, 500 for an exception.
C28_ExactlyOneResponse ==
    /\ Len(hSent) <= 1
    /\ HandlerAtRest =>
          /\ Len(hSent) = 1
          /\ Validation(hIn).status # 0 => hSent[1] = Validation(hIn)
          /\ Validation(hIn).status = 0 => hSent[1].status \in {200, 401, 500}

\* the part of C28 that holds: never two responses, and exactly one with the
\* status of its path whenever the handler returns
C28_NeverTwoResponses ==
    /\ Len(hSent) <= 1
    /\ hPc = "responded" =>
          /\ Len(hSent) = 1
          /\ Validation(hIn).status # 0 => hSent[1] = Validation(hIn)
          /\ Validation(hIn).status = 0 => hSent[1].status \in {200, 401, 500}

\* the codes of the airport-to-city table, keys and values
TableCodes == { p[1] : p \in AirportToCityPairs } \cup { p[2] : p \in AirportToCityPairs }

\* codes the table does not hold, in either letter case
OtherCodes == { "XXX", "OAK", "oak", "gru", "Gig", "ZZZ", "LIS", "sfo" }

IsFixedPoint(code) == preferCityCode(code) = code

\* preferCityCode is idempotent: every value of the table is not a key or maps
\* to itself, and a code outside the table is only upper-cased
PreferCityCodeIdempotent ==
    /\ \A p \in AirportToCityPairs : AIRPORT_TO_CITY(p[2]) \in {NoCode, p[2]}
    /\ \A c \in TableCodes \cup OtherCodes :
          preferCityCode(preferCityCode(c)) = preferCityCode(c)

\* searchFlightsAviasales has been called by the handler
SearchCalled == hPc = "awaitFlights" /\ flPc # "idle"

\* C29: every origin and destination code the handler passes to the flight
\* search is a fixed point of preferCityCode, which is idempotent over the
\* codes; the handler applies it to whatever resolveIataTerm returned, so no
\* airport code with a different aggregator reaches the flight-pricing provider.
C29_SearchCodesAreCityCodes ==
    /\ hOrigin # NoCode => IsFixedPoint(hOrigin)
    /\ hDest # NoCode => IsFixedPoint(hDest)
    /\ SearchCalled =>
          /\ flArgs.origin = hOrigin
          /\ flArgs.destination = hDest
          /\ IsFixedPoint(flArgs.origin)
          /\ IsFixedPoint(flArgs.destination)
          /\ \A i \in DOMAIN flQueries :
                /\ AIRPORT_TO_CITY(flQueries[i].o) \in {NoCode, flQueries[i].o}
                /\ AIRPORT_TO_CITY(flQueries[i].d) \in {NoCode, flQueries[i].d}
    /\ (SearchCalled /\ flPc = "entered") => PreferCityCodeIdempotent

\* resolveIataTerm returned the airport code OAK for the destination, and the
\* provider was asked for its city SFO
C29_Witness ==
    /\ SearchCalled
    /\ iaRet = "OAK"
    /\ flArgs.destination = "SFO"
    /\ flArgs.origin = "SAO"
    /\ flQueries # <<>>
    /\ flQueries[1].d = "SFO"

\* the narrative-generation requests of the request, in the order made
GenCalls == SelectSeq(hCalls, LAMBDA c : c.svc \in { GenStrategies[j] : j \in DOMAIN GenStrategies })

GenInOrder == \A i \in DOMAIN GenCalls : GenCalls[i].svc = GenStrategies[i]

\* the generator is over: it returned, threw, or waits for ever
GenOver == hPc # "generate" /\ GenTried > 0

\* usedSearch and the summary row are true exactly when the first strategy gave
\* the result; the generator returns right after the strategy that gave it
FlagIsFirstStrategy ==
    hGen.done =>
        /\ hGen.usedSearch <=> GenTried = 1
        /\ hGen.searchRow <=> hGen.usedSearch

\* a failure of the third strategy goes to the handler's catch
ThirdFailureUncaught ==
    GenTried = Len(GenStrategies) /\ ~hGen.done /\ hPc \notin {"generate", "stalled"} =>
        /\ hPc \in {"caught500", "responded"}
        /\ hPc = "responded" => hSent[1].status = 500

C30_WitnessSearch ==
    /\ ItinerarySent
    /\ GenTried = 1
    /\ hGen.usedSearch
    /\ hGen.searchRow

\* all three strategies failed and the request was answered with 500
C30_WitnessAllFailed ==
    /\ GenTried = 3
    /\ ~hGen.done
    /\ hPc = "responded"
    /\ hSent[1].status = 500

\* the first strategy answered with a success status, and a later one was tried
C30_WitnessUnreadableBody ==
    /\ hGen.firstOk = 1
    /\ GenTried = 2

====
